---- MODULE Spec2Model ----
(***************************************************************************)
(* HelixPrint (moonraker-plugin/helix_print.py): the print-lifecycle       *)
(* manager of the Moonraker component.  A request prints an uploaded,      *)
(* modified copy of a G-code file through a symlink that carries the       *)
(* original file's name; job events attach the job id and, on a terminal   *)
(* state, patch the history entry, delete the symlink and schedule the     *)
(* deletion of the temporary file; a table in the database lets the        *)
(* startup pass finish deletions a restart interrupted.                    *)
(*                                                                         *)
(* Strings are sequences of code points (Python str), so that the          *)
(* filename checks, the splitting of paths and the prefix tests are        *)
(* computed as the code computes them.  A path is a sequence of segments.  *)
(* The file system maps the location of every existing entry to its node.  *)
(*                                                                         *)
(* Coroutines run on one event loop: a handler runs without interruption   *)
(* up to an await that really suspends, and other handlers may run while   *)
(* it is suspended.  A database or history call takes effect when it is    *)
(* issued (the host runs the commands of one connection in the order they  *)
(* are issued) and its result, or its exception, is seen on resumption.    *)
(***************************************************************************)
EXTENDS Integers, Sequences, FiniteSets, Bags, TLC

VARIABLES
    fs,             \* file system: location -> node
    enabled,        \* self.enabled
    use_sqlite,     \* self._use_sqlite
    history_cap,    \* what self.history is: "none", "incompatible", "full"
    active_prints,  \* self.active_prints: symlink_filename -> PrintInfo
    db,             \* rows of the table helix_temp_files
    db_seq,         \* the table's AUTOINCREMENT counter
    history,        \* the host's history store: job_id -> job
    timers,         \* armed delay_callback(_cleanup_temp_file) calls
    tasks,          \* suspended handlers (coroutines at an await)
    recon,          \* the _startup_cleanup callback of this process
    now,            \* time.time(), in units of TimeUnit seconds
    nprints,        \* PrintInfo objects created so far
    resp,           \* what the last print_modified call returned or raised
    escaped         \* the exception that escaped an event handler, if one did

vars == <<fs, enabled, use_sqlite, history_cap, active_prints, db, db_seq, history, timers, tasks, recon, now, nprints, resp, escaped>>

(***************************************************************************)
(* Bounds of the model.                                                    *)
(***************************************************************************)
\* PrintInfo objects created in one behaviour.
MaxPrints == 2
\* The clock stops here.
MaxClock == 4
\* Handlers suspended at an await at the same time.
MaxTasks == 2
\* Symlinks followed by one resolve() before the loop error (ELOOP).
MaxLinkDepth == 4

(***************************************************************************)
(* Strings.                                                                *)
(***************************************************************************)
\* s.startswith(p)
StartsWith(s, p) ==
    /\ Len(p) <= Len(s)
    /\ SubSeq(s, 1, Len(p)) = p

\* p in s, for a substring p
Contains(s, p) ==
    \E i \in 1..(Len(s) - Len(p) + 1) : SubSeq(s, i, i + Len(p) - 1) = p

\* s.replace(old, new): every occurrence, left to right; old is not empty
RECURSIVE Replace(_, _, _)
Replace(s, old, new) ==
    IF Len(s) < Len(old) \/ old = <<>> THEN s
    ELSE IF SubSeq(s, 1, Len(old)) = old
         THEN new \o Replace(SubSeq(s, Len(old) + 1, Len(s)), old, new)
         ELSE <<Head(s)>> \o Replace(Tail(s), old, new)

\* the index of the last c in s, 0 when there is none
RECURSIVE LastIndex(_, _)
LastIndex(s, c) ==
    IF s = <<>> THEN 0
    ELSE IF s[Len(s)] = c THEN Len(s)
    ELSE LastIndex(SubSeq(s, 1, Len(s) - 1), c)

\* the pieces of s between the separators c
RECURSIVE SplitOn(_, _)
SplitOn(s, c) ==
    LET i == LastIndex(s, c) IN
    IF i = 0 THEN <<s>>
    ELSE Append(SplitOn(SubSeq(s, 1, i - 1), c), SubSeq(s, i + 1, Len(s)))

\* the code points the code names
Slash == <<47>>
Dot == <<46>>
DotDot == <<46, 46>>

(***************************************************************************)
(* Paths (pathlib.PurePosixPath).                                          *)
(***************************************************************************)
\* the segments of a path string: empty and "." segments are dropped
Segments(s) ==
    SelectSeq(SplitOn(s, 47), LAMBDA x : x # <<>> /\ x # Dot)

\* base / s : an absolute s replaces base
PathJoin(base, s) ==
    IF StartsWith(s, Slash) THEN Segments(s) ELSE base \o Segments(s)

\* path.parent
Parent(p) ==
    IF p = <<>> THEN <<>> ELSE SubSeq(p, 1, Len(p) - 1)

\* path.name : the last segment, "" for "." and "/"
PathName(p) ==
    IF p = <<>> THEN <<>> ELSE p[Len(p)]

\* the stem of a name: what is before the last dot, the whole name when the
\* dot is missing, leads the name or ends it
NameStem(n) ==
    LET i == LastIndex(n, 46) IN
    IF i <= 1 \/ i = Len(n) THEN n ELSE SubSeq(n, 1, i - 1)

\* path.stem
PathStem(p) == NameStem(PathName(p))

\* the string of a relative path, as the f-string {dir}/{name} builds it
Slashed(dir, name) == dir \o Slash \o name

(***************************************************************************)
(* The file system.  A node is a directory, a regular file or a symlink    *)
(* with its target (an absolute path).  Every key is a location: the       *)
(* directories above it are real directories.                              *)
(***************************************************************************)
DirNode == [kind |-> "dir", target |-> <<>>]
FileNode == [kind |-> "file", target |-> <<>>]
LinkNode(t) == [kind |-> "link", target |-> t]

\* realpath: the canonical path of p in file system f, following symlinks and
\* collapsing "..", keeping a tail that does not exist (strict = False);
\* todo are the segments still to walk from the location cur
RECURSIVE Walk(_, _, _, _)
Walk(f, cur, todo, fuel) ==
    IF todo = <<>> THEN [ok |-> TRUE, path |-> cur]
    ELSE LET seg == Head(todo)
             rest == Tail(todo)
             here == Append(cur, seg)
         IN  IF seg = DotDot THEN Walk(f, Parent(cur), rest, fuel)
             ELSE IF here \in DOMAIN f /\ f[here].kind = "link"
                  THEN IF fuel = 0 THEN [ok |-> FALSE, path |-> <<>>]
                       ELSE Walk(f, <<>>, f[here].target \o rest, fuel - 1)
                  ELSE Walk(f, here, rest, fuel)

\* Path.resolve()
Resolve(f, p) == Walk(f, <<>>, p, MaxLinkDepth)

\* where the entry named by p lives: the directory part is followed, the last
\* segment is not (lstat, unlink, symlink)
Location(f, p) ==
    LET d == Resolve(f, Parent(p)) IN
    IF p = <<>> THEN [ok |-> TRUE, path |-> <<>>]
    ELSE IF d.ok THEN [ok |-> TRUE, path |-> Append(d.path, PathName(p))]
    ELSE d

\* os.path.lexists
LExists(f, p) ==
    LET l == Location(f, p) IN l.ok /\ (l.path = <<>> \/ l.path \in DOMAIN f)

\* Path.is_symlink()
IsSymlink(f, p) ==
    LET l == Location(f, p) IN
    l.ok /\ l.path \in DOMAIN f /\ f[l.path].kind = "link"

\* Path.exists(): stat follows symlinks
Exists(f, p) ==
    LET r == Resolve(f, p) IN r.ok /\ (r.path = <<>> \/ r.path \in DOMAIN f)

\* Path.is_dir()
IsDir(f, p) ==
    LET r == Resolve(f, p) IN
    r.ok /\ (r.path = <<>> \/ (r.path \in DOMAIN f /\ f[r.path].kind = "dir"))

\* the file system without the entry at location l
Without(f, l) == [q \in DOMAIN f \ {l} |-> f[q]]

\* the file system with node n at location l
With(f, l, n) == [q \in DOMAIN f \cup {l} |-> IF q = l THEN n ELSE f[q]]

\* Path.unlink(): the file system after it, and whether it raised (a missing
\* entry, a directory)
Unlink(f, p) ==
    LET l == Location(f, p) IN
    IF l.ok /\ l.path \in DOMAIN f /\ f[l.path].kind # "dir"
    THEN [fs |-> Without(f, l.path), err |-> "none"]
    ELSE [fs |-> f, err |-> "OSError"]

\* Path.unlink(missing_ok=True): a missing entry is no error
UnlinkMissingOk(f, p) ==
    IF LExists(f, p) THEN Unlink(f, p) ELSE [fs |-> f, err |-> "none"]

\* Path.symlink_to(target): FileExistsError when the name is taken, another
\* OSError when the directory is missing or the system refuses (oserr)
SymlinkTo(f, p, target, oserr) ==
    LET l == Location(f, p) IN
    IF LExists(f, p) THEN [fs |-> f, err |-> "FileExistsError"]
    ELSE IF oserr \/ ~IsDir(f, Parent(p)) THEN [fs |-> f, err |-> "OSError"]
    ELSE [fs |-> With(f, l.path, LinkNode(target)), err |-> "none"]

\* the names in directory d: Path.glob and iterdir see these
Names(f, d) ==
    LET r == Resolve(f, d) IN
    IF ~r.ok THEN {}
    ELSE {PathName(q) : q \in {x \in DOMAIN f : x # <<>> /\ Parent(x) = r.path}}

(***************************************************************************)
(* Configuration and the names requests and events are drawn from.         *)
(***************************************************************************)
\* the gcodes root, file_manager.get_directory("gcodes"): /g
gc_path == << <<103>> >>
\* temp_dir: "t"
temp_dir == <<116>>
\* symlink_dir: "s"
symlink_dir == <<115>>
\* ".thumbs"
thumbs_name == <<46, 116, 104, 117, 109, 98, 115>>
\* one unit of the clock, in seconds: ten days
TimeUnit == 10 * 86400
\* cleanup_delay, configured as one unit
cleanup_delay == (10 * 86400) \div TimeUnit
\* thirty days are three units
DB_RECORD_MAX_AGE == (30 * 86400) \div TimeUnit

\* "m.g": a regular file of the root
Name_m == <<109, 46, 103>>
\* "d/m.g": a regular file with the same base name in a directory
Name_dm == <<100, 47, 109, 46, 103>>
\* "x.g": no such file
Name_x == <<120, 46, 103>>
\* "l.g": a symlink to m.g
Name_l == <<108, 46, 103>>
\* "o.g": a symlink to /q/o.g, outside the root
Name_o == <<111, 46, 103>>
\* "k/o.g": k is a symlink to the directory /q
Name_ko == <<107, 47, 111, 46, 103>>
\* "../q/o.g"
Name_up == <<46, 46, 47, 113, 47, 111, 46, 103>>
\* "/q/o.g"
Name_abs == <<47, 113, 47, 111, 46, 103>>
\* "d": a directory
Name_d == <<100>>
\* "s/r.g": a regular file that lies in the symlink directory
Name_sr == <<115, 47, 114, 46, 103>>
\* "m.g" followed by a null byte
Name_nul == <<109, 46, 103, 0>>
\* "m.g" followed by a line feed
Name_ctl == <<109, 46, 103, 10>>
\* "t/1.g", "t/2.g": uploaded files; "t/9.g": never uploaded
Name_t1 == <<116, 47, 49, 46, 103>>
Name_t2 == <<116, 47, 50, 46, 103>>
Name_t9 == <<116, 47, 57, 46, 103>>
\* "s/m.g", "s/1.g", "s/x.g": what Klipper reports for a print through the symlink
Name_sm == <<115, 47, 109, 46, 103>>
Name_s1 == <<115, 47, 49, 46, 103>>
Name_sx == <<115, 47, 120, 46, 103>>
\* the thumbnail of m.g, "m-1.p"
Name_thumb == <<109, 45, 49, 46, 112>>

\* original_filename of a request
OriginalNames == {Name_m, Name_dm, Name_sr, Name_t1, Name_x, Name_l, Name_o, Name_ko, Name_up, Name_abs, Name_nul, Name_ctl, <<>>}
\* temp_file_path of a request
TempNames == {Name_t1, Name_t2, Name_t9, Name_up, Name_abs, Name_nul, <<>>}
\* modifications of a request
ModificationLists == {<<"z_offset+0.1">>}
\* state of a job event
TerminalStates == {"complete", "cancelled", "error"}
JobStates == {"printing", "paused"} \cup TerminalStates
\* filename of a job event
EventNames == {Name_sm, Name_sr, Name_s1, Name_sx, Name_m}
\* job_id of a job event: "" stands for a missing or empty one
JobIds == {"", "1", "2"}
\* what the host provides as its history component
HistoryCaps == {"full", "incompatible", "none"}

\* the file system the process finds
InitFs ==
    LET g == gc_path
        q == << <<113>> >>
    IN  (<<>> :> DirNode) @@ (g :> DirNode) @@ (q :> DirNode)
        @@ (PathJoin(q, Name_o) :> FileNode)
        @@ (PathJoin(g, Name_m) :> FileNode)
        @@ (Append(g, <<100>>) :> DirNode)
        @@ (PathJoin(g, Name_dm) :> FileNode)
        @@ (PathJoin(g, Name_l) :> LinkNode(PathJoin(g, Name_m)))
        @@ (PathJoin(g, Name_o) :> LinkNode(PathJoin(q, Name_o)))
        @@ (Append(g, <<107>>) :> LinkNode(q))
        @@ (Append(g, temp_dir) :> DirNode)
        @@ (PathJoin(g, Name_t1) :> FileNode)
        @@ (PathJoin(g, Name_t2) :> FileNode)
        @@ (Append(g, symlink_dir) :> DirNode)
        @@ (PathJoin(g, Name_sr) :> FileNode)
        @@ (Append(g, thumbs_name) :> DirNode)
        @@ (Append(Append(g, thumbs_name), Name_thumb) :> FileNode)

(***************************************************************************)
(* Input validation.                                                       *)
(***************************************************************************)
\* what a call returns or raises: server.error(msg, code), or the response
Reply(code, msg, original, print, temp, status) ==
    [code |-> code, msg |-> msg, original_filename |-> original, print_filename |-> print, temp_filename |-> temp, status |-> status]

Error(code, msg) == Reply(code, msg, <<>>, <<>>, <<>>, "")

\* the arguments of a call of print_modified that the checks read
Request(original_filename, temp_file_path) ==
    [original_filename |-> original_filename, temp_file_path |-> temp_file_path]

\* a call and what it returned or raised
Outcome(request, reply) == [request |-> request, reply |-> reply]

NoError == Error(0, "")

\* a faulty variant, to try the properties against: _validate_filename without its check of ".."
ValidateFilenameNoDotDot(filename) ==
    IF filename = <<>> THEN Error(400, "Filename cannot be empty")
    ELSE IF \E i \in 1..Len(filename) : filename[i] < 32
         THEN Error(400, "Filename contains invalid characters")
    ELSE IF StartsWith(filename, Slash)
         THEN Error(400, "Filename cannot be absolute path")
    ELSE NoError

\* _validate_filename: the error it raises, NoError when it returns
ValidateFilename(filename) ==
    IF filename = <<>> THEN Error(400, "Filename cannot be empty")
    ELSE IF Contains(filename, <<0>>) \/ \E i \in 1..Len(filename) : filename[i] < 32
         THEN Error(400, "Filename contains invalid characters")
    ELSE IF StartsWith(filename, Slash)
         THEN Error(400, "Filename cannot be absolute path")
    ELSE IF Contains(filename, DotDot)
         THEN Error(400, "Filename cannot contain '..'")
    ELSE NoError

\* resolved.relative_to(root) succeeds
IsRelativeTo(resolved, root) ==
    /\ Len(root) <= Len(resolved)
    /\ SubSeq(resolved, 1, Len(root)) = root

\* a faulty variant, to try the properties against: _validate_path_within_gcodes without relative_to
ValidatePathNoContainment(f, path) ==
    LET resolved == Resolve(f, path)
        gc_resolved == Resolve(f, gc_path)
    IN  IF ~resolved.ok \/ ~gc_resolved.ok
        THEN [err |-> Error(400, "Invalid path"), resolved |-> <<>>]
        ELSE [err |-> NoError, resolved |-> resolved.path]

\* _validate_path_within_gcodes: the error it raises (NoError when it returns)
\* and the resolved path it returns
ValidatePathWithinGcodes(f, path) ==
    LET resolved == Resolve(f, path)
        gc_resolved == Resolve(f, gc_path)
    IN  IF ~resolved.ok \/ ~gc_resolved.ok
        THEN [err |-> Error(400, "Invalid path"), resolved |-> <<>>]
        ELSE IF ~IsRelativeTo(resolved.path, gc_resolved.path)
        THEN [err |-> Error(400, "Path traversal detected"), resolved |-> <<>>]
        ELSE [err |-> NoError, resolved |-> resolved.path]

(***************************************************************************)
(* Symlink and thumbnail handling.                                         *)
(***************************************************************************)
\* a faulty variant, to try the properties against: _create_symlink_atomic without the unlink and the retry
CreateSymlinkNoRetry(f, symlink_path, target_path, oserr) ==
    SymlinkTo(f, symlink_path, target_path, oserr)

\* _create_symlink_atomic: the file system after it and the exception that
\* leaves it, "none" when it returns; oserr: the system refuses the symlink
CreateSymlinkAtomic(f, symlink_path, target_path, oserr) ==
    LET first == SymlinkTo(f, symlink_path, target_path, oserr) IN
    IF first.err # "FileExistsError" THEN first
    ELSE LET gone == IF IsSymlink(f, symlink_path) \/ Exists(f, symlink_path)
                     THEN Unlink(f, symlink_path)
                     ELSE [fs |-> f, err |-> "none"]
         IN  IF gone.err # "none" THEN gone
             ELSE SymlinkTo(gone.fs, symlink_path, target_path, oserr)

\* thumbs_dir.glob(stem + "*"): the names that start with the stem
Glob(f, dir, stem) == {n \in Names(f, dir) : StartsWith(n, stem)}

\* the loop of _copy_metadata over the thumbnails found
RECURSIVE LinkThumbs(_, _, _, _, _)
LinkThumbs(f, thumbs_dir, todo, original_stem, temp_stem) ==
    IF todo = {} THEN f
    ELSE LET name == CHOOSE n \in todo : TRUE
             new_name == Replace(name, original_stem, temp_stem)
             temp_thumb == Append(thumbs_dir, new_name)
             made == IF Exists(f, temp_thumb) THEN [fs |-> f, err |-> "none"]
                     ELSE SymlinkTo(f, temp_thumb, Append(thumbs_dir, name), FALSE)
         IN  LinkThumbs(made.fs, thumbs_dir, todo \ {name}, original_stem, temp_stem)

\* _copy_metadata: the file system after it
CopyMetadata(f, original_path, temp_path) ==
    LET thumbs_dir == Append(gc_path, thumbs_name) IN
    IF ~Exists(f, thumbs_dir) THEN f
    ELSE LinkThumbs(f, thumbs_dir, Glob(f, thumbs_dir, PathStem(original_path)), PathStem(original_path), PathStem(temp_path))

\* the loop of _cleanup_thumbnail_symlinks
RECURSIVE UnlinkThumbs(_, _, _)
UnlinkThumbs(f, thumbs_dir, todo) ==
    IF todo = {} THEN f
    ELSE LET name == CHOOSE n \in todo : TRUE
             thumb == Append(thumbs_dir, name)
         IN  UnlinkThumbs(IF IsSymlink(f, thumb) THEN Unlink(f, thumb).fs ELSE f, thumbs_dir, todo \ {name})

\* _cleanup_thumbnail_symlinks: the file system after it
CleanupThumbnailSymlinks(f, temp_filename) ==
    LET thumbs_dir == Append(gc_path, thumbs_name) IN
    IF ~Exists(f, thumbs_dir) THEN f
    ELSE UnlinkThumbs(f, thumbs_dir, Glob(f, thumbs_dir, PathStem(Segments(temp_filename))))

\* Path.mkdir(parents=True, exist_ok=True)
RECURSIVE MkdirP(_, _)
MkdirP(f, p) ==
    IF p = <<>> \/ Exists(f, p) THEN f
    ELSE LET g == MkdirP(f, Parent(p))
             l == Location(g, p)
         IN  IF l.ok /\ l.path \notin DOMAIN g THEN With(g, l.path, DirNode) ELSE g

(***************************************************************************)
(* Records of the program.                                                 *)
(***************************************************************************)
\* PrintInfo(...): job_id "" and db_id 0 stand for None
PrintInfo(original_filename, temp_filename, symlink_filename, modifications, start_time) ==
    [original_filename |-> original_filename, temp_filename |-> temp_filename, symlink_filename |-> symlink_filename, modifications |-> modifications, start_time |-> start_time, job_id |-> "", db_id |-> 0]

\* what a suspended handler still reads of its print_info after the await
Locals(info) ==
    [original_filename |-> info.original_filename, temp_filename |-> info.temp_filename, symlink_filename |-> info.symlink_filename]

\* a handler suspended at an await: pc names the await, filename is the
\* handler's registry key
Task(pc, filename, info) == [pc |-> pc, filename |-> filename, info |-> Locals(info)]

\* json.dumps of a list of strings, as the sequence of its tokens
RECURSIVE JsonItems(_)
JsonItems(list) ==
    IF list = <<>> THEN <<>>
    ELSE <<"\"", Head(list), "\"">> \o (IF Tail(list) = <<>> THEN <<>> ELSE <<", ">> \o JsonItems(Tail(list)))

JsonDumps(list) == <<"[">> \o JsonItems(list) \o <<"]">>

\* a row of helix_temp_files; cleanup_scheduled_at -1 and job_id "" stand for NULL
Row(id, info, created_at) ==
    [id |-> id, original_filename |-> info.original_filename, temp_filename |-> info.temp_filename, symlink_filename |-> info.symlink_filename, modifications |-> JsonDumps(info.modifications), job_id |-> "", created_at |-> created_at, cleanup_scheduled_at |-> -1, status |-> "active"]

\* the registry without a key
RemoveKey(reg, k) == [x \in DOMAIN reg \ {k} |-> reg[x]]

\* a faulty variant, to try the properties against: the record stored under its original_filename
PutKeyOriginal(reg, k, v) ==
    [x \in DOMAIN reg \cup {v.original_filename} |-> IF x = v.original_filename THEN v ELSE reg[x]]

\* the registry with reg[k] = v
PutKey(reg, k, v) == [x \in DOMAIN reg \cup {k} |-> IF x = k THEN v ELSE reg[x]]

\* the job the host's history holds when the process starts
InitJob == [filename |-> Name_sm, auxiliary_data |-> ("slicer" :> <<"x">>)]

NoResp == Outcome(Request(<<>>, <<>>), NoError)

(***************************************************************************)
(* Database commands.                                                      *)
(***************************************************************************)
\* UPDATE ... SET cleanup_scheduled_at = ?, status = ? WHERE temp_filename = ?
UpdateSchedule(rows, cleanup_time, status, temp_filename) ==
    {IF r.temp_filename = temp_filename THEN [r EXCEPT !.cleanup_scheduled_at = cleanup_time, !.status = status] ELSE r : r \in rows}

\* UPDATE ... SET status = ? WHERE temp_filename = ?
UpdateStatus(rows, status, temp_filename) ==
    {IF r.temp_filename = temp_filename THEN [r EXCEPT !.status = status] ELSE r : r \in rows}

\* a faulty variant, to try the properties against: the SELECT without its condition on cleanup_scheduled_at
SelectOverdueAll(rows, t) ==
    {r \in rows : r.status = "pending_cleanup"}

\* SELECT ... WHERE status = 'pending_cleanup' AND cleanup_scheduled_at < ?
SelectOverdue(rows, t) ==
    {r \in rows : r.status = "pending_cleanup" /\ r.cleanup_scheduled_at # -1 /\ r.cleanup_scheduled_at < t}

\* a faulty variant, to try the properties against: the DELETE without its condition on created_at
DeleteCleanedAll(rows, t) ==
    {r \in rows : ~(r.status = "cleaned")}

\* DELETE ... WHERE status = 'cleaned' AND created_at < ?
DeleteCleaned(rows, t) ==
    {r \in rows : ~(r.status = "cleaned" /\ r.created_at < t)}

\* the rows of a result in the order of their ids
RECURSIVE InIdOrder(_)
InIdOrder(rows) ==
    IF rows = {} THEN <<>>
    ELSE LET first == CHOOSE r \in rows : \A q \in rows : r.id <= q.id
         IN  <<[temp_filename |-> first.temp_filename, symlink_filename |-> first.symlink_filename]>> \o InIdOrder(rows \ {first})

(***************************************************************************)
(* print_modified.                                                         *)
(***************************************************************************)
\* a call that raises: the file system it leaves and the error
Raised(f, err) == [err |-> err, fs |-> f, symlink_filename |-> <<>>]

\* a faulty variant, to try the properties against: the whole of original_filename in place of its base name
BaseNameWhole(original_filename) == original_filename

\* Path(original_filename).name
BaseName(original_filename) == PathName(Segments(original_filename))

\* a faulty variant, to try the properties against: the checks without that of the original file's existence
PrintModifiedChecksNoOriginal(f, en, original_filename, temp_file_path) ==
    LET v1 == ValidateFilename(original_filename)
        v2 == ValidateFilename(temp_file_path)
        original_path == PathJoin(gc_path, original_filename)
        orig == ValidatePathWithinGcodes(f, original_path)
        temp_path == PathJoin(gc_path, temp_file_path)
        tmp == ValidatePathWithinGcodes(f, temp_path)
    IN  IF ~en THEN Error(503, "HelixPrint component is disabled")
        ELSE IF v1.code # 0 THEN v1
        ELSE IF v2.code # 0 THEN v2
        ELSE IF orig.err.code # 0 THEN orig.err
        ELSE IF IsSymlink(f, original_path) THEN Error(400, "Original file cannot be a symlink")
        ELSE IF tmp.err.code # 0 THEN tmp.err
        ELSE IF ~Exists(f, tmp.resolved) THEN Error(400, "Temp file not found")
        ELSE NoError

\* a faulty variant, to try the properties against: the checks without that of the original file being a symlink
PrintModifiedChecksNoSymlink(f, en, original_filename, temp_file_path) ==
    LET v1 == ValidateFilename(original_filename)
        v2 == ValidateFilename(temp_file_path)
        original_path == PathJoin(gc_path, original_filename)
        orig == ValidatePathWithinGcodes(f, original_path)
        temp_path == PathJoin(gc_path, temp_file_path)
        tmp == ValidatePathWithinGcodes(f, temp_path)
    IN  IF ~en THEN Error(503, "HelixPrint component is disabled")
        ELSE IF v1.code # 0 THEN v1
        ELSE IF v2.code # 0 THEN v2
        ELSE IF orig.err.code # 0 THEN orig.err
        ELSE IF ~Exists(f, orig.resolved) THEN Error(400, "Original file not found")
        ELSE IF tmp.err.code # 0 THEN tmp.err
        ELSE IF ~Exists(f, tmp.resolved) THEN Error(400, "Temp file not found")
        ELSE NoError

\* _handle_print_modified, its checks of the request: the error raised,
\* NoError when they pass
PrintModifiedChecks(f, en, original_filename, temp_file_path) ==
    LET v1 == ValidateFilename(original_filename)
        v2 == ValidateFilename(temp_file_path)
        original_path == PathJoin(gc_path, original_filename)
        orig == ValidatePathWithinGcodes(f, original_path)
        temp_path == PathJoin(gc_path, temp_file_path)
        tmp == ValidatePathWithinGcodes(f, temp_path)
    IN  IF ~en THEN Error(503, "HelixPrint component is disabled")
        ELSE IF v1.code # 0 THEN v1
        ELSE IF v2.code # 0 THEN v2
        ELSE IF orig.err.code # 0 THEN orig.err
        ELSE IF ~Exists(f, orig.resolved) THEN Error(400, "Original file not found")
        ELSE IF IsSymlink(f, original_path) THEN Error(400, "Original file cannot be a symlink")
        ELSE IF tmp.err.code # 0 THEN tmp.err
        ELSE IF ~Exists(f, tmp.resolved) THEN Error(400, "Temp file not found")
        ELSE NoError

\* _handle_print_modified from the validation of the symlink's directory to
\* the symlink: par is what the validation returns, made what
\* _create_symlink_atomic leaves after mkdir; a failure to link removes the
\* temp file, and the OSError of an unlink that fails (temp_path is a
\* directory) leaves the handler in place of the error
PrintModifiedLinked(f1, par, made, temp_path, symlink_filename) ==
    IF par.err.code # 0 THEN Raised(f1, par.err)
    ELSE IF made.err # "none"
         THEN Raised(UnlinkMissingOk(made.fs, temp_path).fs,
                     IF UnlinkMissingOk(made.fs, temp_path).err = "none"
                     THEN Error(500, "Failed to create symlink")
                     ELSE Error(500, "OSError"))
    ELSE [err |-> NoError, fs |-> made.fs, symlink_filename |-> symlink_filename]

\* _handle_print_modified after the thumbnails, in the file system f1 they
\* leave: the name of the symlink and the symlink
PrintModifiedAlias(f1, original_filename, temp_file_path, oserr) ==
    LET temp_path == PathJoin(gc_path, temp_file_path)
        symlink_filename == Slashed(symlink_dir, BaseName(original_filename))
        symlink_path == PathJoin(gc_path, symlink_filename)
    IN  PrintModifiedLinked(f1, ValidatePathWithinGcodes(f1, Parent(symlink_path)), CreateSymlinkAtomic(MkdirP(f1, Parent(symlink_path)), symlink_path, temp_path, oserr), temp_path, symlink_filename)

\* _handle_print_modified up to the PrintInfo: the checks, the thumbnails and
\* the symlink.  The error raised (NoError when none), the file system left
\* and the symlink_filename computed.
PrintModifiedStart(f, en, original_filename, temp_file_path, copy_metadata, oserr) ==
    IF PrintModifiedChecks(f, en, original_filename, temp_file_path).code # 0
    THEN Raised(f, PrintModifiedChecks(f, en, original_filename, temp_file_path))
    ELSE PrintModifiedAlias(IF copy_metadata THEN CopyMetadata(f, Resolve(f, PathJoin(gc_path, original_filename)).path, Resolve(f, PathJoin(gc_path, temp_file_path)).path) ELSE f, original_filename, temp_file_path, oserr)

\* the request up to the await of klippy.run_gcode: the checks raise, or the
\* print is registered, persisted (dbfail: the INSERT raises) and the print
\* command is issued.  The await of the INSERT is not a step of its own: all
\* that follows it before the next await is the assignment of db_id.
PrintModified(original_filename, temp_file_path, modifications, copy_metadata, oserr, dbfail) ==
    \E r \in {PrintModifiedStart(fs, enabled, original_filename, temp_file_path, copy_metadata, oserr)} :
        LET stored == use_sqlite /\ ~dbfail
            created == PrintInfo(original_filename, temp_file_path, r.symlink_filename, modifications, now)
            print_info == [created EXCEPT !.db_id = IF stored THEN db_seq + 1 ELSE 0]
        IN  IF r.err.code # 0
            THEN /\ fs' = r.fs
                 /\ resp' = Outcome(Request(original_filename, temp_file_path), r.err)
                 /\ UNCHANGED <<enabled, use_sqlite, history_cap, active_prints, db, db_seq, history, timers, tasks, recon, now, nprints, escaped>>
            ELSE /\ fs' = r.fs
                 /\ active_prints' = PutKey(active_prints, r.symlink_filename, print_info)
                 /\ nprints' = nprints + 1
                 /\ db' = IF stored THEN db \cup {Row(db_seq + 1, print_info, now)} ELSE db
                 /\ db_seq' = IF stored THEN db_seq + 1 ELSE db_seq
                 /\ tasks' = tasks (+) SetToBag({Task("run_gcode", r.symlink_filename, print_info)})
                 /\ UNCHANGED <<enabled, use_sqlite, history_cap, history, timers, recon, now, resp, escaped>>

\* the request after klippy.run_gcode: the response, or the rollback and the
\* error when the command raised (started = FALSE).  The rollback unlinks the
\* symlink, then the temp file, then deletes the key: an unlink that raises
\* (the path is a directory) or a key that is gone ends it there.
PrintModifiedFinish(task, started) ==
    LET symlink_filename == task.info.symlink_filename
        symlink_path == PathJoin(gc_path, symlink_filename)
        temp_path == PathJoin(gc_path, task.info.temp_filename)
        u1 == UnlinkMissingOk(fs, symlink_path)
        u2 == UnlinkMissingOk(u1.fs, temp_path)
        request == Request(task.info.original_filename, task.info.temp_filename)
    IN  /\ BagIn(task, tasks)
        /\ task.pc = "run_gcode"
        /\ tasks' = tasks (-) SetToBag({task})
        /\ IF started
           THEN /\ resp' = Outcome(request, Reply(200, "", task.info.original_filename, symlink_filename, task.info.temp_filename, "printing"))
                /\ UNCHANGED <<fs, active_prints>>
           ELSE /\ fs' = IF u1.err # "none" THEN u1.fs ELSE u2.fs
                /\ IF u1.err # "none" \/ u2.err # "none"
                   THEN /\ resp' = Outcome(request, Error(500, "OSError"))
                        /\ UNCHANGED active_prints
                   ELSE IF symlink_filename \in DOMAIN active_prints
                   THEN /\ active_prints' = RemoveKey(active_prints, symlink_filename)
                        /\ resp' = Outcome(request, Error(500, "Failed to start print"))
                   ELSE /\ resp' = Outcome(request, Error(500, "KeyError"))
                        /\ UNCHANGED active_prints
        /\ UNCHANGED <<enabled, use_sqlite, history_cap, db, db_seq, history, timers, recon, now, nprints, escaped>>

(***************************************************************************)
(* Job events, the history patch and the scheduling of cleanup.            *)
(***************************************************************************)
\* a faulty variant, to try the properties against: the filename recorded with the symlink directory left in place
DisplayNameKeep(original_filename) == original_filename

\* the filename _patch_history_entry records: original_filename without a
\* leading "<symlink_dir>/"
DisplayName(original_filename) ==
    IF StartsWith(original_filename, symlink_dir \o Slash)
    THEN SubSeq(original_filename, Len(symlink_dir) + 2, Len(original_filename))
    ELSE original_filename

\* a faulty variant, to try the properties against: the auxiliary data written anew, without the keys the job had
PatchedJobFresh(job, print_info) ==
    [filename |-> DisplayName(print_info.original_filename),
     auxiliary_data |->
        ("helix_modifications" :> print_info.modifications)
        @@ ("helix_temp_file" :> print_info.temp_filename)
        @@ ("helix_symlink" :> print_info.symlink_filename)
        @@ ("helix_original" :> print_info.original_filename)]

\* the job _patch_history_entry writes with modify_job
PatchedJob(job, print_info) ==
    [filename |-> DisplayName(print_info.original_filename),
     auxiliary_data |->
        ("helix_modifications" :> print_info.modifications)
        @@ ("helix_temp_file" :> print_info.temp_filename)
        @@ ("helix_symlink" :> print_info.symlink_filename)
        @@ ("helix_original" :> print_info.original_filename)
        @@ job.auxiliary_data]

\* whether _patch_history_entry reaches its await of get_job
PatchAwaits(print_info) ==
    /\ history_cap = "full"
    /\ print_info.job_id # ""

\* a faulty variant, to try the properties against: the patch without the return for a job that get_job does not find
PatchHistoryAnyJob(h, print_info, hfail) ==
    IF hfail THEN h
    ELSE [j \in DOMAIN h \cup {print_info.job_id} |->
            IF j # print_info.job_id THEN h[j]
            ELSE PatchedJob(IF j \in DOMAIN h THEN h[j] ELSE [filename |-> <<>>, auxiliary_data |-> <<>>], print_info)]

\* the history store after get_job and modify_job (hfail: one of them raises)
PatchHistory(h, print_info, hfail) ==
    IF hfail \/ print_info.job_id \notin DOMAIN h THEN h
    ELSE [h EXCEPT ![print_info.job_id] = PatchedJob(@, print_info)]

\* a faulty variant, to try the properties against: _schedule_cleanup without the removal of the symlink
ScheduleCleanupKeepLink(f, info) == CleanupThumbnailSymlinks(f, info.temp_filename)

\* _schedule_cleanup up to its await: the file system after the symlink and
\* the thumbnail symlinks are removed
ScheduleCleanupFs(f, info) ==
    LET symlink_path == PathJoin(gc_path, info.symlink_filename)
        f1 == IF IsSymlink(f, symlink_path) THEN Unlink(f, symlink_path).fs ELSE f
    IN  CleanupThumbnailSymlinks(f1, info.temp_filename)

\* what delay_callback(cleanup_delay, _cleanup_temp_file, temp_filename) arms
Timer(temp_filename, due) == [temp_filename |-> temp_filename, due |-> due]

\* a faulty variant, to try the properties against: the end of the handler without the del
RetireKeep(others, filename, info) ==
    /\ timers' = timers (+) SetToBag({Timer(info.temp_filename, now + cleanup_delay)})
    /\ tasks' = others
    /\ UNCHANGED <<active_prints, escaped>>

\* the end of the handler of a terminal event: the timer is armed, then
\* del self.active_prints[filename], which raises KeyError when the key is gone
Retire(others, filename, info) ==
    /\ timers' = timers (+) SetToBag({Timer(info.temp_filename, now + cleanup_delay)})
    /\ tasks' = others
    /\ IF filename \in DOMAIN active_prints
       THEN /\ active_prints' = RemoveKey(active_prints, filename)
            /\ UNCHANGED escaped
       ELSE /\ escaped' = "KeyError"
            /\ UNCHANGED active_prints

\* a faulty variant, to try the properties against: _schedule_cleanup without the try around its UPDATE, whose exception then ends the handler
CleanupNoCatch(others, filename, info, dbfail) ==
    /\ fs' = ScheduleCleanupFs(fs, info)
    /\ IF use_sqlite /\ dbfail
       THEN /\ tasks' = others
            /\ escaped' = "DatabaseError"
            /\ UNCHANGED <<db, timers, active_prints>>
       ELSE IF use_sqlite
       THEN /\ BagCardinality(others) < MaxTasks
            /\ db' = UpdateSchedule(db, now + cleanup_delay, "pending_cleanup", info.temp_filename)
            /\ tasks' = others (+) SetToBag({Task("update", filename, info)})
            /\ UNCHANGED <<timers, active_prints, escaped>>
       ELSE /\ Retire(others, filename, info)
            /\ UNCHANGED db

\* _schedule_cleanup and what follows it in the handler; others are the
\* other suspended handlers.  With the database the UPDATE is awaited
\* (dbfail: it raises) and the handler is suspended again.
Cleanup(others, filename, info, dbfail) ==
    /\ fs' = ScheduleCleanupFs(fs, info)
    /\ IF use_sqlite
       THEN /\ BagCardinality(others) < MaxTasks
            /\ db' = IF dbfail THEN db ELSE UpdateSchedule(db, now + cleanup_delay, "pending_cleanup", info.temp_filename)
            /\ tasks' = others (+) SetToBag({Task("update", filename, info)})
            /\ UNCHANGED <<timers, active_prints, escaped>>
       ELSE /\ Retire(others, filename, info)
            /\ UNCHANGED db

\* a faulty variant, to try the properties against: the handler without its test of the job_id of a "printing" event, so that a missing job_id is stored too
JobStateChangedKnownAnyJobId(state, filename, job_id, hfail, dbfail) ==
    LET print_info == active_prints[filename] IN
    IF state = "printing"
    THEN /\ active_prints' = [active_prints EXCEPT ![filename].job_id = job_id]
         /\ UNCHANGED <<fs, enabled, use_sqlite, history_cap, db, db_seq, history, timers, tasks, recon, now, nprints, resp, escaped>>
    ELSE IF state \notin TerminalStates
    THEN UNCHANGED vars
    ELSE IF PatchAwaits(print_info)
    THEN /\ BagCardinality(tasks) < MaxTasks
         /\ history' = PatchHistory(history, print_info, hfail)
         /\ tasks' = tasks (+) SetToBag({Task("history", filename, print_info)})
         /\ UNCHANGED <<fs, enabled, use_sqlite, history_cap, active_prints, db, db_seq, timers, recon, now, nprints, resp, escaped>>
    ELSE /\ Cleanup(tasks, filename, print_info, dbfail)
         /\ UNCHANGED <<enabled, use_sqlite, history_cap, db_seq, history, recon, now, nprints, resp>>

\* a faulty variant, to try the properties against: the handler with the symlink removed before the history patch is awaited
JobStateChangedKnownCleanupFirst(state, filename, job_id, hfail, dbfail) ==
    LET print_info == active_prints[filename] IN
    IF state = "printing"
    THEN /\ active_prints' = IF job_id # "" THEN [active_prints EXCEPT ![filename].job_id = job_id] ELSE active_prints
         /\ UNCHANGED <<fs, enabled, use_sqlite, history_cap, db, db_seq, history, timers, tasks, recon, now, nprints, resp, escaped>>
    ELSE IF state \notin TerminalStates
    THEN UNCHANGED vars
    ELSE IF PatchAwaits(print_info)
    THEN /\ BagCardinality(tasks) < MaxTasks
         /\ fs' = ScheduleCleanupFs(fs, print_info)
         /\ history' = PatchHistory(history, print_info, hfail)
         /\ tasks' = tasks (+) SetToBag({Task("history", filename, print_info)})
         /\ UNCHANGED <<enabled, use_sqlite, history_cap, active_prints, db, db_seq, timers, recon, now, nprints, resp, escaped>>
    ELSE /\ Cleanup(tasks, filename, print_info, dbfail)
         /\ UNCHANGED <<enabled, use_sqlite, history_cap, db_seq, history, recon, now, nprints, resp>>

\* _on_job_state_changed for a filename that is a key of the registry, up to
\* its first await, or to its end.  The awaits of get_job and modify_job are
\* one suspension: between them the handler only computes, and what it
\* reads of print_info it has read before (hfail: get_job or modify_job
\* raises).
JobStateChangedKnown(state, filename, job_id, hfail, dbfail) ==
    LET print_info == active_prints[filename] IN
    IF state = "printing"
    THEN /\ active_prints' = IF job_id # "" THEN [active_prints EXCEPT ![filename].job_id = job_id] ELSE active_prints
         /\ UNCHANGED <<fs, enabled, use_sqlite, history_cap, db, db_seq, history, timers, tasks, recon, now, nprints, resp, escaped>>
    ELSE IF state \notin TerminalStates
    THEN UNCHANGED vars
    ELSE IF PatchAwaits(print_info)
    THEN /\ BagCardinality(tasks) < MaxTasks
         /\ history' = PatchHistory(history, print_info, hfail)
         /\ tasks' = tasks (+) SetToBag({Task("history", filename, print_info)})
         /\ UNCHANGED <<fs, enabled, use_sqlite, history_cap, active_prints, db, db_seq, timers, recon, now, nprints, resp, escaped>>
    ELSE /\ Cleanup(tasks, filename, print_info, dbfail)
         /\ UNCHANGED <<enabled, use_sqlite, history_cap, db_seq, history, recon, now, nprints, resp>>

\* a faulty variant, to try the properties against: the handler with self.active_prints[filename] in place of .get(filename), which raises for a filename that is no key
JobStateChangedNoGet(state, filename, job_id, hfail, dbfail) ==
    IF ~StartsWith(filename, symlink_dir \o Slash)
    THEN UNCHANGED vars
    ELSE IF filename \notin DOMAIN active_prints
    THEN /\ escaped' = "KeyError"
         /\ UNCHANGED <<fs, enabled, use_sqlite, history_cap, active_prints, db, db_seq, history, timers, tasks, recon, now, nprints, resp>>
    ELSE JobStateChangedKnown(state, filename, job_id, hfail, dbfail)

\* _on_job_state_changed: an event whose filename does not start with
\* "<symlink_dir>/" or is no key of the registry is discarded
JobStateChanged(state, filename, job_id, hfail, dbfail) ==
    IF ~StartsWith(filename, symlink_dir \o Slash) \/ filename \notin DOMAIN active_prints
    THEN UNCHANGED vars
    ELSE JobStateChangedKnown(state, filename, job_id, hfail, dbfail)

\* the handler after the history patch
AfterHistory(task, dbfail) ==
    /\ BagIn(task, tasks)
    /\ task.pc = "history"
    /\ Cleanup(tasks (-) SetToBag({task}), task.filename, task.info, dbfail)
    /\ UNCHANGED <<enabled, use_sqlite, history_cap, db_seq, history, recon, now, nprints, resp>>

\* the handler after the UPDATE of _schedule_cleanup
AfterUpdate(task) ==
    /\ BagIn(task, tasks)
    /\ task.pc = "update"
    /\ Retire(tasks (-) SetToBag({task}), task.filename, task.info)
    /\ UNCHANGED <<fs, enabled, use_sqlite, history_cap, db, db_seq, history, recon, now, nprints, resp>>

(***************************************************************************)
(* The cleanup timer and the startup pass.                                 *)
(***************************************************************************)
\* a faulty variant, to try the properties against: _cleanup_temp_file without the removal of the temp file
CleanupTempFileKeep(f, temp_filename) == f

\* temp_path.exists() holds and temp_path.unlink() raises: the path is a
\* directory
UnlinkRaises(f, p) == Exists(f, p) /\ Unlink(f, p).err # "none"

\* _cleanup_temp_file, called when its delay has passed (dbfail: the UPDATE
\* raises); nothing follows the await of the UPDATE
CleanupTempFileFs(f, temp_filename) ==
    LET temp_path == PathJoin(gc_path, temp_filename) IN
    IF Exists(f, temp_path) THEN Unlink(f, temp_path).fs ELSE f

\* a faulty variant, to try the properties against: the callback with an unlink that is not guarded by exists(), its error for a missing file ends it before its UPDATE
CleanupTempFileUnguarded(timer, dbfail) ==
    /\ BagIn(timer, timers)
    /\ timer.due <= now
    /\ timers' = timers (-) SetToBag({timer})
    /\ fs' = CleanupTempFileFs(fs, timer.temp_filename)
    /\ db' = IF use_sqlite /\ ~dbfail /\ Exists(fs, PathJoin(gc_path, timer.temp_filename)) THEN UpdateStatus(db, "cleaned", timer.temp_filename) ELSE db
    /\ escaped' = IF Exists(fs, PathJoin(gc_path, timer.temp_filename)) THEN escaped ELSE "FileNotFoundError"
    /\ UNCHANGED <<enabled, use_sqlite, history_cap, active_prints, db_seq, history, tasks, recon, now, nprints, resp>>

\* the callback of the timer; an unlink that raises ends it before its UPDATE
CleanupTempFile(timer, dbfail) ==
    /\ BagIn(timer, timers)
    /\ timer.due <= now
    /\ timers' = timers (-) SetToBag({timer})
    /\ fs' = CleanupTempFileFs(fs, timer.temp_filename)
    /\ db' = IF use_sqlite /\ ~dbfail /\ ~UnlinkRaises(fs, PathJoin(gc_path, timer.temp_filename)) THEN UpdateStatus(db, "cleaned", timer.temp_filename) ELSE db
    /\ UNCHANGED <<enabled, use_sqlite, history_cap, active_prints, db_seq, history, tasks, recon, now, nprints, resp, escaped>>

\* a faulty variant, to try the properties against: the SELECT outside of the try, its error leaves the pass
StartupSelectNoCatch(dbfail) ==
    /\ recon.pc = "pending"
    /\ recon' = IF ~use_sqlite THEN [recon EXCEPT !.pc = "skipped"]
                ELSE IF dbfail THEN [recon EXCEPT !.pc = "failed", !.now = now]
                ELSE [pc |-> "rows", now |-> now, rows |-> InIdOrder(SelectOverdue(db, now))]
    /\ escaped' = IF use_sqlite /\ dbfail THEN "Exception" ELSE escaped
    /\ UNCHANGED <<fs, enabled, use_sqlite, history_cap, active_prints, db, db_seq, history, timers, tasks, now, nprints, resp>>

\* _startup_cleanup up to the result of its SELECT (dbfail: it raises)
StartupSelect(dbfail) ==
    /\ recon.pc = "pending"
    /\ recon' = IF ~use_sqlite THEN [recon EXCEPT !.pc = "skipped"]
                ELSE IF dbfail THEN [recon EXCEPT !.pc = "failed", !.now = now]
                ELSE [pc |-> "rows", now |-> now, rows |-> InIdOrder(SelectOverdue(db, now))]
    /\ UNCHANGED <<fs, enabled, use_sqlite, history_cap, active_prints, db, db_seq, history, timers, tasks, now, nprints, resp, escaped>>

\* a faulty variant, to try the properties against: the turn of the loop without the removal of the temp file and the symlink
StartupRowFsKeep(f, row) == CleanupThumbnailSymlinks(f, row.temp_filename)

\* the files of one row of the result are removed
StartupRowFs(f, row) ==
    LET temp_path == PathJoin(gc_path, row.temp_filename)
        symlink_path == PathJoin(gc_path, row.symlink_filename)
        f1 == IF Exists(f, temp_path) THEN Unlink(f, temp_path).fs ELSE f
        f2 == IF IsSymlink(f1, symlink_path) THEN Unlink(f1, symlink_path).fs ELSE f1
    IN  CleanupThumbnailSymlinks(f2, row.temp_filename)

\* one turn of the loop of _startup_cleanup, to the await of its UPDATE; an
\* unlink of the temp file that raises ends the pass, as the UPDATE does when
\* it raises
StartupRow(dbfail) ==
    /\ recon.pc = "rows"
    /\ recon.rows # <<>>
    /\ \E raised \in {UnlinkRaises(fs, PathJoin(gc_path, Head(recon.rows).temp_filename))} :
          /\ fs' = IF raised THEN fs ELSE StartupRowFs(fs, Head(recon.rows))
          /\ db' = IF dbfail \/ raised THEN db ELSE UpdateStatus(db, "cleaned", Head(recon.rows).temp_filename)
          /\ recon' = IF dbfail \/ raised THEN [recon EXCEPT !.pc = "failed"] ELSE [recon EXCEPT !.rows = Tail(@)]
    /\ UNCHANGED <<enabled, use_sqlite, history_cap, active_prints, db_seq, history, timers, tasks, now, nprints, resp, escaped>>

\* after the loop: the DELETE of old cleaned rows, with the time the pass began
StartupPurge(dbfail) ==
    /\ recon.pc = "rows"
    /\ recon.rows = <<>>
    /\ db' = IF dbfail THEN db ELSE DeleteCleaned(db, recon.now - DB_RECORD_MAX_AGE)
    /\ recon' = [recon EXCEPT !.pc = IF dbfail THEN "failed" ELSE "done"]
    /\ UNCHANGED <<fs, enabled, use_sqlite, history_cap, active_prints, db_seq, history, timers, tasks, now, nprints, resp, escaped>>

\* the loop of _startup_cleanup over the rows of its SELECT when no other
\* handler runs during its awaits: the files and the table it leaves, and
\* whether an unlink that raised has ended it
RECURSIVE StartupLoop(_, _, _)
StartupLoop(f, d, rows) ==
    IF rows = <<>> THEN [fs |-> f, db |-> d, failed |-> FALSE]
    ELSE IF UnlinkRaises(f, PathJoin(gc_path, Head(rows).temp_filename))
    THEN [fs |-> f, db |-> d, failed |-> TRUE]
    ELSE StartupLoop(StartupRowFs(f, Head(rows)), UpdateStatus(d, "cleaned", Head(rows).temp_filename), Tail(rows))

\* the files and the table after the loop, purged when the loop came to its end
StartupPurged(r, t) ==
    [fs |-> r.fs, db |-> IF r.failed THEN r.db ELSE DeleteCleaned(r.db, t - DB_RECORD_MAX_AGE)]

\* _startup_cleanup run at the time t from its SELECT to its DELETE with no
\* other handler in between, and no command of the database raising
StartupCleanup(f, d, t) == StartupPurged(StartupLoop(f, d, InIdOrder(SelectOverdue(d, t))), t)

(***************************************************************************)
(* The process and its environment.                                        *)
(***************************************************************************)
\* _ensure_directories
EnsureDirectories(f) ==
    MkdirP(MkdirP(f, Append(gc_path, temp_dir)), Append(gc_path, symlink_dir))

\* the state component_init leaves: _startup_cleanup is registered
Pending == [pc |-> "pending", now |-> 0, rows |-> <<>>]

\* the startup pass has run at the start of the clock over an empty table
Passed(sql) == [pc |-> IF sql THEN "done" ELSE "skipped", now |-> 0, rows |-> <<>>]

\* the process stops (a crash or a shutdown) and starts again: what it held
\* in memory is lost, the files and the database stay (sql: the table could
\* be set up)
Restart(sql) ==
    /\ fs' = EnsureDirectories(fs)
    /\ use_sqlite' = sql
    /\ active_prints' = <<>>
    /\ timers' = EmptyBag
    /\ tasks' = EmptyBag
    /\ recon' = Pending
    /\ resp' = NoResp
    /\ escaped' = ""
    /\ UNCHANGED <<enabled, history_cap, db, db_seq, history, now, nprints>>

\* time passes: a unit is long, so no handler is in the middle of its work
\* and every timer that is due has fired
Tick ==
    /\ now < MaxClock
    /\ tasks = EmptyBag
    /\ recon.pc # "pending" /\ recon.pc # "rows"
    /\ \A t \in BagToSet(timers) : t.due > now
    /\ now' = now + 1
    /\ UNCHANGED <<fs, enabled, use_sqlite, history_cap, active_prints, db, db_seq, history, timers, tasks, recon, nprints, resp, escaped>>

\* the client is handed the response or the error of its call; the host does
\* so before it runs another handler
Replied ==
    /\ resp # NoResp
    /\ resp' = NoResp
    /\ UNCHANGED <<fs, enabled, use_sqlite, history_cap, active_prints, db, db_seq, history, timers, tasks, recon, now, nprints, escaped>>

\* a client calls print_modified; a call that passes the checks makes a
\* PrintInfo and suspends
Requested(originals, temps, copies, oserrs, dbfails) ==
    /\ resp = NoResp
    /\ \E o \in originals, t \in temps :
          /\ PrintModifiedChecks(fs, enabled, o, t).code = 0
                => (nprints < MaxPrints /\ BagCardinality(tasks) < MaxTasks)
          /\ \E m \in ModificationLists, c \in copies, oserr \in oserrs, dbfail \in dbfails :
                PrintModified(o, t, m, c, oserr, dbfail)

\* klippy.run_gcode returns or raises
RequestDone(starteds) ==
    /\ resp = NoResp
    /\ \E task \in BagToSet(tasks), started \in starteds : PrintModifiedFinish(task, started)

\* the host sends job_state:state_changed
Event(filenames, job_ids, hfails, dbfails) ==
    /\ resp = NoResp
    /\ \E filename \in filenames :
          \/ \E job_id \in job_ids : JobStateChanged("printing", filename, job_id, FALSE, FALSE)
          \/ JobStateChanged("paused", filename, "", FALSE, FALSE)
          \/ \E state \in TerminalStates, hfail \in hfails, dbfail \in dbfails :
                JobStateChanged(state, filename, "", hfail, dbfail)

\* a suspended handler of a terminal event goes on
EventResumed(dbfails) ==
    /\ resp = NoResp
    /\ \E task \in BagToSet(tasks) : (\E dbfail \in dbfails : AfterHistory(task, dbfail)) \/ AfterUpdate(task)

\* a cleanup timer fires
TimerFired(dbfails) ==
    /\ resp = NoResp
    /\ \E timer \in BagToSet(timers), dbfail \in dbfails : CleanupTempFile(timer, dbfail)

\* the startup pass goes on
Startup(dbfails) ==
    /\ resp = NoResp
    /\ \E dbfail \in dbfails : StartupSelect(dbfail) \/ StartupRow(dbfail) \/ StartupPurge(dbfail)

Restarted(sqls) ==
    /\ resp = NoResp
    /\ \E sql \in sqls : Restart(sql)

Elapsed ==
    /\ resp = NoResp
    /\ Tick

\* the state after component_init, for the configurations given; passed: the
\* startup pass has run before the first request or event is served
InitOf(enableds, sqls, caps, passed) ==
    /\ fs = EnsureDirectories(InitFs)
    /\ enabled \in enableds
    /\ use_sqlite \in sqls
    /\ history_cap \in caps
    /\ active_prints = <<>>
    /\ db = {}
    /\ db_seq = 0
    /\ history = ("1" :> InitJob)
    /\ timers = EmptyBag
    /\ tasks = EmptyBag
    /\ recon = IF passed THEN Passed(use_sqlite) ELSE Pending
    /\ now = 0
    /\ nprints = 0
    /\ resp = NoResp
    /\ escaped = ""

(***************************************************************************)
(* The life of prints: requests for files that exist, the job events of    *)
(* their prints and the handlers' awaits in every order, with Klipper      *)
(* starting the print or refusing it.                                      *)
(***************************************************************************)
Init == InitOf({TRUE}, {TRUE}, {"full"}, TRUE)

Next ==
    \/ Replied
    \/ Requested({Name_dm, Name_sr}, {Name_t1, Name_t2}, {TRUE}, {FALSE}, {FALSE})
    \/ RequestDone(BOOLEAN)
    \/ Event({Name_sm, Name_sr, Name_sx}, {"", "1"}, {FALSE}, {FALSE})
    \/ EventResumed({FALSE})

Spec == Init /\ [][Next]_vars

(***************************************************************************)
(* Properties of the life of prints.                                       *)
(***************************************************************************)
\* the link of the file system at a location, <<>> when no symlink lies there
LinkAt(f, p) ==
    IF IsSymlink(f, p) THEN f[Location(f, p).path].target ELSE <<>>

\* the handlers that are suspended after the step and were not before it
Suspended(pc) == {x \in BagToSet(tasks') : x.pc = pc /\ tasks' = tasks (+) SetToBag({x})}

\* the handlers that come to their end in the step
Ended(pcs) == {x \in BagToSet(tasks) : x.pc \in pcs /\ tasks' = tasks (-) SetToBag({x})}

\* C1: when print_modified returns its response, a symlink lies at
\* <symlink_dir>/<base name of original_filename>, it points at the temp
\* file of the request, and the registry holds under that key a record with
\* the original_filename and the temp_filename of the request.
C1_AliasAndRecordAtReturn ==
    resp.reply.code = 200 =>
        LET key == symlink_dir \o Slash \o PathName(Segments(resp.request.original_filename)) IN
        /\ LinkAt(fs, PathJoin(gc_path, key)) = PathJoin(gc_path, resp.request.temp_file_path)
        /\ key \in DOMAIN active_prints
        /\ active_prints[key].original_filename = resp.request.original_filename
        /\ active_prints[key].temp_filename = resp.request.temp_file_path

\* C3, the patch: when the handler of a terminal event for a registered
\* filename whose record has the job_id j of an earlier "printing" event
\* reaches the history, and the history holds j, job j is rewritten to the
\* original_filename of the record without a leading "<symlink_dir>/".
C3_HistoryRewritten ==
    \A filename \in DOMAIN active_prints :
        LET print_info == active_prints[filename]
            j == print_info.job_id
            o == print_info.original_filename
        IN  (/\ tasks' = tasks (+) SetToBag({Task("history", filename, print_info)})
             /\ j \in DOMAIN history)
            => /\ j \in DOMAIN history'
               /\ \/ symlink_dir \o Slash \o history'[j].filename = o
                  \/ ~StartsWith(o, symlink_dir \o Slash) /\ history'[j].filename = o

\* C3, the registry: when the handler of the terminal event comes to its
\* end (it arms the timer and is no longer suspended), the registry holds no
\* record under the filename of the event.
C3_RecordRemoved ==
    \A task \in BagToSet(tasks) :
        (/\ task.pc \in {"history", "update"}
         /\ tasks' = tasks (-) SetToBag({task})
         /\ timers' # timers)
        => task.filename \notin DOMAIN active_prints'

C17_UnknownFilenameDiscarded ==
    \A filename \in EventNames \ DOMAIN active_prints, state \in JobStates, job_id \in JobIds :
        ~ENABLED (JobStateChanged(state, filename, job_id, FALSE, FALSE) /\ vars' # vars)

\* the print of "d/m.g" is registered under "s/m.g" and its handlers are at
\* rest, while "s/r.g", a file of the symlink directory, is no key: an
\* event for "s/r.g" is discarded here
C17_Reached ==
    /\ DOMAIN active_prints = {Name_sm}
    /\ active_prints[Name_sm].job_id = "1"
    /\ tasks = EmptyBag
    /\ LExists(fs, PathJoin(gc_path, Name_sr))
    /\ ENABLED JobStateChanged("complete", Name_sr, "", FALSE, FALSE)

\* C18: in every state the requests and the events reach, every record of
\* the registry lies under the key that is its own symlink_filename, and no
\* two keys hold records with the same symlink_filename.
C18_KeyedBySymlinkFilename ==
    /\ \A k \in DOMAIN active_prints : active_prints[k].symlink_filename = k
    /\ \A k1 \in DOMAIN active_prints, k2 \in DOMAIN active_prints :
          active_prints[k1].symlink_filename = active_prints[k2].symlink_filename => k1 = k2

\* two requests for "d/m.g" have been accepted, the second with "t/2.g":
\* the registry holds one record under "s/m.g", that of the second
C18_Reached ==
    /\ nprints = 2
    /\ DOMAIN active_prints = {Name_sm}
    /\ active_prints[Name_sm].temp_filename = Name_t2
    /\ IsSymlink(fs, PathJoin(gc_path, Name_sm))

\* C21: a "printing" event with a job_id for a registered filename has one
\* outcome: the record's job_id is the event's, and the rest of the record,
\* the other records, the files, the table, the timers and every other
\* variable are as before.  An event in a state that is not terminal and
\* without a job_id changes nothing.
C21_JobIdAttached ==
    \A filename \in DOMAIN active_prints :
        /\ \A job_id \in JobIds \ {""} :
              /\ ENABLED JobStateChanged("printing", filename, job_id, FALSE, FALSE)
              /\ ~ENABLED (/\ JobStateChanged("printing", filename, job_id, FALSE, FALSE)
                           /\ ~(/\ active_prints' = [active_prints EXCEPT ![filename].job_id = job_id]
                                /\ UNCHANGED <<fs, enabled, use_sqlite, history_cap, db, db_seq, history, timers, tasks, recon, now, nprints, resp, escaped>>))
        /\ \A state \in JobStates \ TerminalStates :
              ~ENABLED (JobStateChanged(state, filename, "", FALSE, FALSE) /\ vars' # vars)

\* the print of "d/m.g" has been started and a "printing" event has set the
\* job_id of its record to "1": the symlink and the temp file are on disk,
\* the row is active and holds no job_id, and no timer is armed
C21_Reached ==
    /\ DOMAIN active_prints = {Name_sm}
    /\ active_prints[Name_sm].job_id = "1"
    /\ active_prints[Name_sm].temp_filename = Name_t1
    /\ LinkAt(fs, PathJoin(gc_path, Name_sm)) = PathJoin(gc_path, Name_t1)
    /\ Exists(fs, PathJoin(gc_path, Name_t1))
    /\ \A r \in db : r.status = "active" /\ r.job_id = ""
    /\ timers = EmptyBag
    /\ tasks = EmptyBag

\* the four keys _patch_history_entry sets in the auxiliary data of a job
SubstitutionKeys == {"helix_modifications", "helix_temp_file", "helix_symlink", "helix_original"}

InitRequests == InitOf(BOOLEAN, {TRUE}, {"full"}, TRUE)

NextRequests ==
    \/ Replied
    \/ Requested(OriginalNames, TempNames, BOOLEAN, {FALSE}, {FALSE})
    \/ RequestDone(BOOLEAN)

SpecRequests == InitRequests /\ [][NextRequests]_vars

\* a call of print_modified returns or raises in this step
Answered == resp = NoResp /\ resp' # NoResp

\* the step leaves the files, the registry and the table as they were, and
\* starts no print
NothingMade == UNCHANGED <<fs, active_prints, db, db_seq, tasks, timers, history>>

\* the errors _validate_filename raises
FilenameErrors ==
    {"Filename cannot be empty", "Filename contains invalid characters", "Filename cannot be absolute path", "Filename cannot contain '..'"}

\* a name that is empty, holds a null byte or a control character, starts
\* with "/" or has a parent-directory segment
Malformed(name) ==
    \/ name = <<>>
    \/ \E i \in 1..Len(name) : name[i] \in 0..31
    \/ name[1] = 47
    \/ \E i \in 1..Len(SplitOn(name, 47)) : SplitOn(name, 47)[i] = <<46, 46>>

\* the requests taken up in this step: a call that is refused at once, or
\* one that goes as far as its await of run_gcode
Arrived ==
    (IF Answered /\ tasks' = tasks THEN {resp'.request} ELSE {})
    \cup {Request(task.info.original_filename, task.info.temp_filename) :
            task \in {x \in BagToSet(tasks') : x.pc = "run_gcode" /\ tasks' = tasks (+) SetToBag({x})}}

\* the call is refused at once with a 400 error and nothing is made
Refused == Answered /\ resp'.reply.code = 400 /\ NothingMade

\* C2: with the component enabled, a request whose original_filename or
\* temp_file_path is empty, holds a null byte or a control character, starts
\* with "/" or has a parent-directory segment fails with an error of
\* _validate_filename (code 400), and the files, the registry and the table
\* are unchanged.
C2_MalformedNameRejected ==
    [][\A r \in Arrived :
          (enabled /\ (Malformed(r.original_filename) \/ Malformed(r.temp_file_path)))
          => (Refused /\ resp'.reply.msg \in FilenameErrors)]_vars

\* a request with the temp_file_path "../q/o.g" has been refused while a
\* print is registered
C2_Reached ==
    /\ resp.request.temp_file_path = <<46, 46, 47, 113, 47, 111, 46, 103>>
    /\ resp.reply.msg = "Filename cannot contain '..'"
    /\ active_prints # <<>>

\* C4: every response of print_modified has print_filename
\* "<symlink_dir>/<base name of original_filename>", status "printing" and a
\* temp_filename that differs from original_filename.
C4_ResponseFields ==
    resp.reply.code = 200 =>
        /\ resp.reply.print_filename = symlink_dir \o Slash \o PathName(Segments(resp.request.original_filename))
        /\ resp.reply.status = "printing"
        /\ resp.reply.temp_filename # resp.reply.original_filename

\* C8: with the component enabled, a request whose original_filename names
\* no file under the gcodes root fails with a 400 error, and no symlink, no
\* thumbnail symlink, no record and no row is made.
C8_MissingOriginalRejected ==
    [][\A r \in Arrived :
          (enabled /\ ~Exists(fs, PathJoin(gc_path, r.original_filename)))
          => Refused]_vars

\* a request for "x.g", which does not exist, with an uploaded temp file has
\* been refused
C8_Reached ==
    /\ resp.request.original_filename = <<120, 46, 103>>
    /\ resp.request.temp_file_path = <<116, 47, 49, 46, 103>>
    /\ resp.reply.msg = "Original file not found"

\* the canonical path of original_filename lies outside the gcodes root
Escapes(f, original_filename) ==
    LET r == Resolve(f, PathJoin(gc_path, original_filename)) IN
    r.ok /\ ~(Len(r.path) >= Len(gc_path) /\ SubSeq(r.path, 1, Len(gc_path)) = gc_path)

\* C9 as stated: a request whose original_filename resolves outside the
\* gcodes root fails with the traversal error, whether it escapes by ".."
\* segments or by a symlink, and no print is started.
C9_TraversalError ==
    [][\A r \in Arrived :
          (enabled /\ Escapes(fs, r.original_filename))
          => (Refused /\ resp'.reply.msg = "Path traversal detected")]_vars

\* C9, amended: such a request fails with a 400 error and no print is
\* started; the error is the traversal error when both names pass
\* _validate_filename, and an error of _validate_filename otherwise.
C9_EscapeRejected ==
    [][\A r \in Arrived :
          (enabled /\ Escapes(fs, r.original_filename))
          => /\ Refused
             /\ IF Malformed(r.original_filename) \/ Malformed(r.temp_file_path)
                THEN resp'.reply.msg \in FilenameErrors
                ELSE resp'.reply.msg = "Path traversal detected"]_vars

\* a request for "k/o.g", where k is a symlink to a directory outside the
\* root, has been refused with the traversal error
C9_Reached ==
    /\ resp.request.original_filename = <<107, 47, 111, 46, 103>>
    /\ resp.reply.msg = "Path traversal detected"

\* C16: a request made while the component is disabled, or whose original
\* file is itself a symlink, or whose temp file does not exist, fails (with
\* the error 503 of the disabled component or a 400 error), and the file
\* system, the thumbnails directory included, the registry and the table
\* are as they were before the call.
C16_RejectionLeavesNothing ==
    [][\A r \in Arrived :
          (\/ ~enabled
           \/ IsSymlink(fs, PathJoin(gc_path, r.original_filename))
           \/ ~Exists(fs, PathJoin(gc_path, r.temp_file_path)))
          => /\ Answered
             /\ resp'.reply.code = (IF enabled THEN 400 ELSE 503)
             /\ NothingMade]_vars

\* a request for "l.g", a symlink to "m.g", with an uploaded temp file has
\* been refused while a print is registered
C16_Reached ==
    /\ resp.request.original_filename = Name_l
    /\ resp.request.temp_file_path = Name_t1
    /\ resp.reply.msg = "Original file cannot be a symlink"
    /\ active_prints # <<>>

(***************************************************************************)
(* _create_symlink_atomic by itself: its calls, one after another, for the *)
(* link paths and targets below, with no other actor on the file system.   *)
(***************************************************************************)
\* where links are made: taken by nothing, by a regular file ("s/r.g") or by
\* a directory ("d")
LinkPaths == {Name_sm, Name_sr, Name_sx, <<100>>}
\* what they point at; "t/9.g" does not exist
LinkTargets == {Name_t1, Name_t2, Name_t9, Name_m}

\* a call of _create_symlink_atomic; what it raises is not kept
Linked(paths, targets, oserrs) ==
    /\ \E p \in paths, t \in targets, oserr \in oserrs :
          fs' = CreateSymlinkAtomic(fs, PathJoin(gc_path, p), PathJoin(gc_path, t), oserr).fs
    /\ UNCHANGED <<enabled, use_sqlite, history_cap, active_prints, db, db_seq, history, timers, tasks, recon, now, nprints, resp, escaped>>

InitSymlink == InitOf({TRUE}, {TRUE}, {"full"}, TRUE)

NextSymlink == Linked(LinkPaths, LinkTargets, BOOLEAN)

SpecSymlink == InitSymlink /\ [][NextSymlink]_vars

\* a directory lies at the path
IsDirectoryEntry(f, p) == p \in DOMAIN f /\ f[p].kind = "dir"

\* both calls returned, the second on what the first left; the link path
\* holds a symlink to the second target and no other entry has changed
SecondCall(f, link, target2, second) ==
    /\ second.err = "none"
    /\ LinkAt(second.fs, link) = target2
    /\ DOMAIN second.fs = DOMAIN f \cup {link}
    /\ \A q \in DOMAIN f \ {link} : second.fs[q] = f[q]

TwoCalls(f, link, target1, target2, first) ==
    /\ first.err = "none"
    /\ LinkAt(first.fs, link) = target1
    /\ SecondCall(f, link, target2, CreateSymlinkAtomic(first.fs, link, target2, FALSE))

\* C7: for a link path that is free or taken by a symlink or a regular
\* file, a call with target T1 and then a call with another target T2 (the
\* system refusing nothing) both return, leave at the link path a symlink
\* to T2, and add or change no other entry.
C7_SecondTargetWins ==
    \A p \in LinkPaths, t1 \in LinkTargets, t2 \in LinkTargets :
        (t1 # t2 /\ ~IsDirectoryEntry(fs, PathJoin(gc_path, p)))
        => TwoCalls(fs, PathJoin(gc_path, p), PathJoin(gc_path, t1), PathJoin(gc_path, t2), CreateSymlinkAtomic(fs, PathJoin(gc_path, p), PathJoin(gc_path, t1), FALSE))

\* the regular file "s/r.g" has been replaced by a symlink, which a later
\* call has pointed at "t/2.g", and "s/m.g" is a symlink to "t/1.g"
C7_Reached ==
    /\ LinkAt(fs, PathJoin(gc_path, Name_sr)) = PathJoin(gc_path, Name_t2)
    /\ LinkAt(fs, PathJoin(gc_path, Name_sm)) = PathJoin(gc_path, Name_t1)

(***************************************************************************)
(* Recovery: prints that end, the clock, the cleanup timers, and the       *)
(* process stopping and starting again with its startup pass.              *)
(***************************************************************************)
InitRecovery == InitOf({TRUE}, {TRUE}, {"full"}, FALSE)

NextRecovery ==
    \/ Replied
    \/ Requested({Name_dm}, {Name_t1, Name_t2}, {TRUE}, {FALSE}, {FALSE})
    \/ RequestDone({TRUE})
    \/ Event({Name_sm}, {""}, {FALSE}, {FALSE})
    \/ EventResumed({FALSE})
    \/ TimerFired({FALSE})
    \/ Startup({FALSE})
    \/ Restarted({TRUE})
    \/ Elapsed

SpecRecovery == InitRecovery /\ [][NextRecovery]_vars

\* the row is pending_cleanup and its time has passed at the time t
Overdue(r, t) ==
    r.status = "pending_cleanup" /\ r.cleanup_scheduled_at # -1 /\ r.cleanup_scheduled_at < t

\* C5, the selection: the startup pass, begun at the time now, takes up every
\* row that is pending_cleanup with cleanup_scheduled_at < now.
C5_Selected ==
    (recon.pc = "pending" /\ recon'.pc = "rows")
    => \A r \in db : Overdue(r, now) =>
          \E i \in 1..Len(recon'.rows) :
             /\ recon'.rows[i].temp_filename = r.temp_filename
             /\ recon'.rows[i].symlink_filename = r.symlink_filename

\* C5, a row: the turn of the loop for a row leaves no temp file and no
\* symlink at the row's paths, and every overdue row of that temp file is
\* cleaned; the pass ends only when no row is left to take up.
C5_RowCleaned ==
    /\ (recon.pc = "rows" /\ recon'.pc = "rows" /\ recon'.rows # recon.rows)
       => /\ recon'.rows = Tail(recon.rows)
          /\ ~Exists(fs', PathJoin(gc_path, Head(recon.rows).temp_filename))
          /\ ~IsSymlink(fs', PathJoin(gc_path, Head(recon.rows).symlink_filename))
          /\ \A r \in db : (Overdue(r, recon.now) /\ r.temp_filename = Head(recon.rows).temp_filename)
                => [r EXCEPT !.status = "cleaned"] \in db'
          /\ \A r \in db' : r.temp_filename = Head(recon.rows).temp_filename => r.status = "cleaned"
    /\ (recon.pc = "rows" /\ recon'.pc = "done") => recon.rows = <<>>

\* C5: for a row with status pending_cleanup and cleanup_scheduled_at < now,
\* the startup pass removes the row's temp file and its symlink when they
\* are there and leaves the row cleaned.
C5_OverdueRowCleaned == [][C5_Selected /\ C5_RowCleaned]_vars

\* after a restart with an empty registry the pass has taken up the overdue
\* row of "t/1.g", whose temp file is still there
C5_Reached ==
    /\ recon.pc = "rows"
    /\ recon.rows # <<>>
    /\ Head(recon.rows).temp_filename = Name_t1
    /\ Exists(fs, PathJoin(gc_path, Name_t1))
    /\ active_prints = <<>>
    /\ \E r \in db : r.temp_filename = Name_t1 /\ Overdue(r, recon.now)

\* C6: the pass begun at the time now ends with no cleaned row whose
\* created_at is before now - 30 days, and with every cleaned row whose
\* created_at is not before it.
C6_Retention ==
    [][(recon.pc = "rows" /\ recon'.pc = "done")
       => /\ \A r \in db' : ~(r.status = "cleaned" /\ r.created_at < recon.now - ((30 * 86400) \div TimeUnit))
          /\ \A r \in db : (r.status = "cleaned" /\ r.created_at >= recon.now - ((30 * 86400) \div TimeUnit))
                => r \in db']_vars

\* a pass at time 4 has purged the cleaned row of the first print, made at
\* time 0, and kept the cleaned row of the second, made at time 1
C6_Reached ==
    /\ recon.pc = "done"
    /\ recon.now = 4
    /\ \E r \in db : r.id = 2 /\ r.status = "cleaned" /\ r.created_at = 1
    /\ \A r \in db : r.id # 1

\* C10: no pending deletion is lost across a restart.  When the process has
\* come to rest after it started (the startup pass is done, no timer is
\* armed, no handler is suspended), nothing it will do by itself changes a
\* row, so every row that was pending_cleanup has been cleaned by then.
C10_NoPendingLeft ==
    (recon.pc = "done" /\ timers = EmptyBag /\ tasks = EmptyBag /\ resp = NoResp)
    => \A r \in db : r.status # "pending_cleanup"

\* C11: a crash while a record is active is repaired.  With a single print
\* made, once the process has come to rest after it started with an empty
\* registry (the startup pass is done, no timer is armed, no handler is
\* suspended), the terminal event of the job is discarded, since its
\* filename is no key of the registry, and nothing else will run: so by then
\* the row has left the status active and its symlink is gone.
C11_CrashRepaired ==
    (nprints = 1 /\ recon.pc = "done" /\ active_prints = <<>> /\ timers = EmptyBag /\ tasks = EmptyBag /\ resp = NoResp)
    => \A r \in db :
          /\ r.status # "active"
          /\ ~IsSymlink(fs, PathJoin(gc_path, r.symlink_filename))

\* the place of a status in the order active, pending_cleanup, cleaned
StatusRank(status) ==
    IF status = "active" THEN 0 ELSE IF status = "pending_cleanup" THEN 1 ELSE 2

\* C19: the status of a row only moves forward along active,
\* pending_cleanup, cleaned: no step of a request, an event, a timer or the
\* startup pass takes a row back to an earlier status.
C19_StatusForward ==
    [][\A r \in db, q \in db' : q.id = r.id => StatusRank(q.status) >= StatusRank(r.status)]_vars

(***************************************************************************)
(* The deferred cleanup: prints that end, the clock and the cleanup timers *)
(* of one process, which does not restart.                                 *)
(***************************************************************************)
InitCleanup == InitOf({TRUE}, {TRUE}, {"full"}, TRUE)

NextCleanup ==
    \/ Replied
    \/ Requested({Name_dm}, {Name_t1, Name_t2}, {TRUE}, {FALSE}, {FALSE})
    \/ RequestDone({TRUE})
    \/ Event({Name_sm}, {""}, {FALSE}, {FALSE})
    \/ EventResumed({FALSE})
    \/ TimerFired({FALSE})
    \/ Elapsed

SpecCleanup == InitCleanup /\ [][NextCleanup]_vars

\* C22, the scheduling: the step in which a handler schedules the cleanup
\* leaves no symlink at the record's path, leaves the temp file as it is and
\* sets the rows of the temp file to pending_cleanup with
\* cleanup_scheduled_at = now + cleanup_delay; the step in which it goes on
\* arms one timer for the temp file.
C22_Scheduled ==
    /\ \A x \in Suspended("update") :
          /\ ~IsSymlink(fs', PathJoin(gc_path, x.info.symlink_filename))
          /\ Exists(fs', PathJoin(gc_path, x.info.temp_filename)) = Exists(fs, PathJoin(gc_path, x.info.temp_filename))
          /\ \A r \in db' : r.temp_filename = x.info.temp_filename
                => (r.status = "pending_cleanup" /\ r.cleanup_scheduled_at = now + cleanup_delay)
    /\ \A x \in Ended({"update"}) :
          timers' = timers (+) SetToBag({Timer(x.info.temp_filename, now + cleanup_delay)})

\* C22, the timer: while a timer stays armed its temp file stays on disk, and
\* the step in which it fires leaves no temp file and the rows of the temp
\* file cleaned.
C22_Fired ==
    /\ \A t \in BagToSet(timers) :
          IF CopiesIn(t, timers') >= CopiesIn(t, timers)
          THEN Exists(fs, PathJoin(gc_path, t.temp_filename)) => Exists(fs', PathJoin(gc_path, t.temp_filename))
          ELSE /\ ~Exists(fs', PathJoin(gc_path, t.temp_filename))
               /\ \A r \in db' : r.temp_filename = t.temp_filename => r.status = "cleaned"

\* C22: scheduling the cleanup of a retired record removes the symlink at
\* once, sets the row to pending_cleanup with cleanup_scheduled_at = now +
\* cleanup_delay and arms one timer; the temp file stays on disk until the
\* timer fires, and when it fires (the process has not restarted) the temp
\* file is removed and the row is cleaned.
C22_CleanupScheduled == [][C22_Scheduled /\ C22_Fired]_vars

(***************************************************************************)
(* Failures: requests whose symlink the system refuses, print commands     *)
(* that Klipper refuses, and the terminal events of the prints, in every   *)
(* order.                                                                  *)
(***************************************************************************)
\* temp_file_path of these requests: uploaded files and a directory
FailureTemps == {Name_t1, Name_t2, Name_d}

InitFailures == InitOf({TRUE}, {TRUE}, {"full"}, TRUE)

NextFailures ==
    \/ Replied
    \/ Requested({Name_m}, FailureTemps, {TRUE}, BOOLEAN, {FALSE})
    \/ RequestDone(BOOLEAN)
    \/ Event({Name_sm}, {""}, {FALSE}, {FALSE})
    \/ EventResumed({FALSE})

SpecFailures == InitFailures /\ [][NextFailures]_vars

\* the registry holds the record of the request under its key
Registered(reg, request) ==
    LET key == Slashed(symlink_dir, BaseName(request.original_filename)) IN
    /\ key \in DOMAIN reg
    /\ reg[key].original_filename = request.original_filename
    /\ reg[key].temp_filename = request.temp_file_path

\* a call fails in this step with an error of the class 500
Failed == Answered /\ resp'.reply.code = 500

\* C12: when print_modified fails with a 500 error, the rollback is done by
\* then.  A call that fails at the symlink (it fails in its first step) leaves
\* no temp file and the registry as it was; a call that fails at the print
\* command (it was suspended) leaves no symlink at its path, no temp file and
\* no record of the request in the registry.
C12_RolledBack ==
    [][Failed =>
          IF tasks' = tasks
          THEN /\ ~LExists(fs', PathJoin(gc_path, resp'.request.temp_file_path))
               /\ active_prints' = active_prints
          ELSE /\ ~LExists(fs', PathJoin(gc_path, Slashed(symlink_dir, BaseName(resp'.request.original_filename))))
               /\ ~LExists(fs', PathJoin(gc_path, resp'.request.temp_file_path))
               /\ ~Registered(active_prints', resp'.request)]_vars

\* the thumbnail symlinks of a temp file that lie in the thumbnails directory
ThumbLinks(f, temp_filename) ==
    LET thumbs_dir == Append(gc_path, thumbs_name) IN
    {n \in Glob(f, thumbs_dir, PathStem(Segments(temp_filename))) : IsSymlink(f, Append(thumbs_dir, n))}

\* C13: a call of print_modified that fails partway leaves nothing of what
\* it made.  A call that fails at the symlink leaves no entry in the file
\* system that was not there before it; the only print made so far, when it
\* fails at the print command, leaves no thumbnail symlink of its temp file
\* and no row with the status active.
C13_NothingOrphaned ==
    [][Failed =>
          /\ tasks' = tasks => DOMAIN fs' \subseteq DOMAIN fs
          /\ (tasks' # tasks /\ nprints = 1)
                => /\ ThumbLinks(fs', resp'.request.temp_file_path) = {}
                   /\ \A r \in db' : r.status # "active"]_vars

(***************************************************************************)
(* Failures of the database: prints whose INSERT raises or not, and their  *)
(* terminal events, whose UPDATE raises or not.                            *)
(***************************************************************************)
InitStore == InitOf({TRUE}, {TRUE}, {"full"}, TRUE)

NextStore ==
    \/ Replied
    \/ Requested({Name_m, Name_sr}, {Name_t1, Name_t2}, {TRUE}, {FALSE}, BOOLEAN)
    \/ RequestDone({TRUE})
    \/ Event({Name_sm, Name_sr}, {"", "1"}, {FALSE}, BOOLEAN)
    \/ EventResumed(BOOLEAN)

SpecStore == InitStore /\ [][NextStore]_vars

\* C14, the request: a request that passes the checks leaves, when it issues
\* the print command, the symlink to its temp file on disk and its record in
\* the registry under the symlink's name, whether its INSERT has raised or
\* not; and when the print command returns, the call returns its response.
C14_Accepted ==
    /\ \A x \in Suspended("run_gcode") :
          /\ LinkAt(fs', PathJoin(gc_path, x.info.symlink_filename)) = PathJoin(gc_path, x.info.temp_filename)
          /\ x.info.symlink_filename \in DOMAIN active_prints'
          /\ Locals(active_prints'[x.info.symlink_filename]) = x.info
    /\ \A x \in Ended({"run_gcode"}) :
          /\ resp'.reply.code = 200
          /\ resp'.reply.print_filename = x.info.symlink_filename

\* C14, the terminal event: the handler removes the symlink before it waits
\* for its UPDATE, and when it goes on after the UPDATE, raised or not, it
\* arms the timer of the temp file and leaves no record under its filename;
\* a handler that goes on after the history patch waits for the UPDATE.
C14_Retired ==
    /\ \A x \in Suspended("update") :
          ~IsSymlink(fs', PathJoin(gc_path, x.info.symlink_filename))
    /\ \A x \in Ended({"update"}) :
          /\ timers' = timers (+) SetToBag({Timer(x.info.temp_filename, now + cleanup_delay)})
          /\ x.filename \notin DOMAIN active_prints'
    /\ Ended({"history"}) = {}

\* C14: a failure of the database changes nothing of the print: the request
\* returns its response with the symlink on disk and the record registered,
\* the print command is issued, and the terminal event removes the symlink,
\* arms the cleanup timer and removes the record, whether the INSERT or the
\* UPDATE raised or not.  (The record's db_id, which is the row's id, is set
\* only by an INSERT that returns.)
C14_StoreFailureAbsorbed == [][C14_Accepted /\ C14_Retired]_vars

\* a print whose INSERT raised (no row was ever made) has been started and
\* its terminal event handled to the end: the symlink is gone, the timer of
\* "t/1.g" is armed and the registry is empty
C14_Reached ==
    /\ nprints = 1
    /\ db_seq = 0
    /\ active_prints = <<>>
    /\ tasks = EmptyBag
    /\ timers = SetToBag({Timer(Name_t1, now + cleanup_delay)})
    /\ ~LExists(fs, PathJoin(gc_path, Name_sm))
    /\ escaped = ""

(***************************************************************************)
(* Failures of the history: prints without the database, their "printing"  *)
(* events, and their terminal events, whose get_job or modify_job raises   *)
(* or not.                                                                 *)
(***************************************************************************)
InitHistory == InitOf({TRUE}, {FALSE}, {"full"}, TRUE)

NextHistory ==
    \/ Replied
    \/ Requested({Name_m, Name_sr}, {Name_t1, Name_t2}, {TRUE}, {FALSE}, {FALSE})
    \/ RequestDone({TRUE})
    \/ Event({Name_sm, Name_sr}, {"1"}, BOOLEAN, {FALSE})
    \/ EventResumed({FALSE})

SpecHistory == InitHistory /\ [][NextHistory]_vars

\* no job of the history has been patched: every call of get_job or
\* modify_job so far has raised
Unpatched == \A j \in DOMAIN history : "helix_original" \notin DOMAIN history[j].auxiliary_data

\* C15: a history patch that fails is absorbed.  Without the database the
\* handler of a terminal event ends in the step that follows its history
\* call; when the call has raised (no job is patched), that step removes the
\* symlink, arms the timer of the temp file, leaves no record under the
\* filename of the event, and no error escapes the handler.
C15_HistoryFailureAbsorbed ==
    [][\A x \in Ended({"history"}) :
          Unpatched
          => /\ ~IsSymlink(fs', PathJoin(gc_path, x.info.symlink_filename))
             /\ timers' = timers (+) SetToBag({Timer(x.info.temp_filename, now + cleanup_delay)})
             /\ x.filename \notin DOMAIN active_prints'
             /\ escaped' = escaped]_vars

(***************************************************************************)
(* The order of the terminal handler: prints and their events, with and    *)
(* without the database, for every kind of history component.              *)
(***************************************************************************)
InitOrder == InitOf({TRUE}, BOOLEAN, HistoryCaps, TRUE)

NextOrder ==
    \/ Replied
    \/ Requested({Name_m}, {Name_t1, Name_t2}, {TRUE}, {FALSE}, {FALSE})
    \/ RequestDone({TRUE})
    \/ Event({Name_sm}, {"", "1"}, {FALSE}, {FALSE})
    \/ EventResumed({FALSE})

SpecOrder == InitOrder /\ [][NextOrder]_vars

\* the keys an event handler takes out of the registry in this step (a
\* request that rolls back answers its client in the step)
Retired == IF resp' = resp THEN DOMAIN active_prints \ DOMAIN active_prints' ELSE {}

\* C20, the patch comes first: the step in which a handler issues its history
\* patch and waits for it removes no symlink, arms no timer and leaves the
\* registry as it is; and a handler starts its cleanup without such a wait
\* only for a record without job_id or with no history component that has
\* get_job and modify_job.
C20_PatchFirst ==
    /\ Suspended("history") # {} => UNCHANGED <<fs, timers, active_prints>>
    /\ \A x \in Suspended("update") :
          (tasks' = tasks (+) SetToBag({x})) => ~PatchAwaits(active_prints[x.filename])
    /\ \A k \in Retired :
          (tasks' = tasks) => ~PatchAwaits(active_prints[k])

\* C20, the record goes last: a step in which a handler takes a key out of
\* the registry arms a timer and leaves no symlink of the handler's record
\* to remove; and every handler that comes to its end leaves no record
\* under the filename of its event.
C20_RecordLast ==
    /\ Retired # {} => \E t \in BagToSet(timers') : timers' = timers (+) SetToBag({t})
    /\ \A x \in Ended({"history", "update"}) : x.filename \notin DOMAIN active_prints'
    /\ (resp' = resp /\ timers' # timers /\ Ended({"history", "update"}) = {})
          => \E k \in Retired : ScheduleCleanupFs(fs, active_prints[k]) = fs'

\* C20: the handler of a terminal event for a registered filename patches
\* the history first (when the history component has both calls and the
\* record has a job_id), then removes the symlink and schedules the cleanup,
\* and takes the record out of the registry last; it does so in every run,
\* with or without a history patch.
C20_TerminalOrder == [][C20_PatchFirst /\ C20_RecordLast]_vars

\* without a history component and with the database, the terminal event
\* of the only print has been handled to its end: no job is patched, the row
\* is pending_cleanup, the timer of "t/1.g" is armed and the record is gone
C20_Reached ==
    /\ history_cap = "none"
    /\ use_sqlite
    /\ nprints = 1
    /\ Unpatched
    /\ active_prints = <<>>
    /\ tasks = EmptyBag
    /\ timers = SetToBag({Timer(Name_t1, now + cleanup_delay)})
    /\ \E r \in db : r.status = "pending_cleanup"

(***************************************************************************)
(* The history patch that is not made: prints whose events carry no job_id *)
(* or the job_id "2", which the history does not hold, for every kind of   *)
(* history component.                                                      *)
(***************************************************************************)
InitPatch == InitOf({TRUE}, {TRUE}, HistoryCaps, TRUE)

NextPatch ==
    \/ Replied
    \/ Requested({Name_m}, {Name_t1, Name_t2}, {TRUE}, {FALSE}, {FALSE})
    \/ RequestDone({TRUE})
    \/ Event({Name_sm}, {"", "2"}, {FALSE}, {FALSE})
    \/ EventResumed({FALSE})

SpecPatch == InitPatch /\ [][NextPatch]_vars

\* C23: the history is written only by a handler whose record has a job_id,
\* with a history component that has get_job and modify_job, and for a job
\* the history holds; a handler waits for the history only with such a
\* component and a job_id.  In every other case the history stays as it is,
\* no error leaves the patch, and the handler goes on to its cleanup.
C23_PatchSkipped ==
    [][/\ \A x \in Suspended("history") :
             /\ history_cap = "full"
             /\ active_prints[x.filename].job_id # ""
             /\ active_prints[x.filename].job_id \notin DOMAIN history => history' = history
       /\ Suspended("history") = {} => history' = history
       /\ \A x \in Ended({"history"}) :
             /\ escaped' = escaped \/ x.filename \notin DOMAIN active_prints
             /\ ~IsSymlink(fs', PathJoin(gc_path, x.info.symlink_filename))]_vars

\* with a history component that has both calls, the handler of a terminal
\* event waits for get_job of the job "2", which the history does not hold:
\* the history is as it was
C23_Reached ==
    /\ history_cap = "full"
    /\ \E x \in BagToSet(tasks) : x.pc = "history" /\ x.filename = Name_sm
    /\ Name_sm \in DOMAIN active_prints
    /\ active_prints[Name_sm].job_id = "2"
    /\ history = ("1" :> InitJob)

(***************************************************************************)
(* The directory of the symlinks: requests against a gcodes directory      *)
(* whose symlink directory is a directory, and against one where it is a   *)
(* symlink to a directory outside of gcodes.                               *)
(***************************************************************************)
\* the file system the process finds when "<gcodes>/<symlink_dir>" is a
\* symlink to the directory "/q"
InitFsOutside ==
    [p \in DOMAIN InitFs \ {PathJoin(gc_path, Name_sr)} |->
        IF p = Append(gc_path, symlink_dir) THEN LinkNode(<< <<113>> >>) ELSE InitFs[p]]

InitAlias ==
    /\ fs \in {EnsureDirectories(InitFs), EnsureDirectories(InitFsOutside)}
    /\ enabled = TRUE
    /\ use_sqlite = TRUE
    /\ history_cap = "full"
    /\ active_prints = <<>>
    /\ db = {}
    /\ db_seq = 0
    /\ history = ("1" :> InitJob)
    /\ timers = EmptyBag
    /\ tasks = EmptyBag
    /\ recon = Passed(TRUE)
    /\ now = 0
    /\ nprints = 0
    /\ resp = NoResp
    /\ escaped = ""

NextAlias ==
    \/ Replied
    \/ Requested({Name_m, Name_dm, Name_o}, {Name_t1, Name_t2}, BOOLEAN, {FALSE}, {FALSE})
    \/ RequestDone(BOOLEAN)

SpecAlias == InitAlias /\ [][NextAlias]_vars

\* C25: a request that a containment check rejects has written nothing: the
\* file system is as it was when the request arrived.
C25_ValidatedBeforeWrite ==
    [][Answered /\ tasks' = tasks /\ resp'.reply.msg \in {"Path traversal detected", "Invalid path"}
       => fs' = fs]_vars

(***************************************************************************)
(* Failures of the startup pass: recovery with a database whose SELECT,    *)
(* UPDATE or DELETE raises or not.                                         *)
(***************************************************************************)
InitStartup == InitOf({TRUE}, {TRUE}, {"full"}, FALSE)

NextStartup ==
    \/ Replied
    \/ Requested({Name_dm}, {Name_t1, Name_t2}, {TRUE}, {FALSE}, {FALSE})
    \/ RequestDone({TRUE})
    \/ Event({Name_sm}, {""}, {FALSE}, {FALSE})
    \/ EventResumed({FALSE})
    \/ TimerFired({FALSE})
    \/ Startup(BOOLEAN)
    \/ Restarted({TRUE})
    \/ Elapsed

SpecStartup == InitStartup /\ [][NextStartup]_vars

\* C26: the step in which the startup pass fails lets no error out and
\* changes nothing the handlers hold, nor the table; a pass that has failed
\* does nothing more.  With a pass that has failed the component takes up
\* requests and events as it does while the pass is yet to run: a request for
\* files that exist is accepted as far as its print command, with its symlink
\* made and its record registered, and the handler of a terminal event
\* removes the symlink of its record; neither touches the pass.
C26_StartupFailureAbsorbed ==
    [][/\ recon.pc \in {"pending", "rows"} /\ recon'.pc = "failed"
          => UNCHANGED <<escaped, enabled, use_sqlite, history_cap, active_prints, timers, tasks, db, db_seq, history, resp, now, nprints>>
       /\ recon.pc = "failed" => recon' = recon \/ recon' = Pending
       /\ recon.pc \in {"pending", "failed"}
          => /\ \A r \in Arrived :
                   Exists(fs, PathJoin(gc_path, r.temp_file_path))
                   => /\ resp' = NoResp
                      /\ recon' = recon
                      /\ \E x \in Suspended("run_gcode") :
                            /\ x.info.temp_filename = r.temp_file_path
                            /\ LinkAt(fs', PathJoin(gc_path, x.filename)) = PathJoin(gc_path, r.temp_file_path)
                            /\ x.filename \in DOMAIN active_prints'
                            /\ active_prints'[x.filename].temp_filename = r.temp_file_path
             /\ \A x \in Suspended("update") :
                   /\ ~IsSymlink(fs', PathJoin(gc_path, x.info.symlink_filename))
                   /\ recon' = recon]_vars

\* the startup pass has failed and has left a row pending_cleanup that is
\* overdue; since then a print has been started, and it is registered with
\* its symlink and its active row
C26_Reached ==
    /\ recon.pc = "failed"
    /\ \E r \in db : Overdue(r, recon.now)
    /\ Name_sm \in DOMAIN active_prints
    /\ active_prints[Name_sm].start_time > recon.now
    /\ IsSymlink(fs, PathJoin(gc_path, Name_sm))
    /\ \E r \in db : r.id = active_prints[Name_sm].db_id /\ r.status = "active"
    /\ escaped = ""

(***************************************************************************)
(* Cleanup that finds nothing to delete, in the states of recovery.        *)
(***************************************************************************)
\* the timers that fire in the step; the process does not start again in it,
\* since a process that has not begun its startup pass holds no timer that is
\* due
Fired == {t \in BagToSet(timers) : t.due <= now /\ timers' = timers (-) SetToBag({t}) /\ recon' = recon}

\* the rows the loop of the startup pass takes up in the step
Reconciled ==
    IF recon.pc = "rows" /\ recon.rows # <<>> /\ recon' # recon /\ recon'.pc # "pending"
    THEN {Head(recon.rows)} ELSE {}

\* neither the temp file nor the symlink of these names is on disk
Gone(f, temp_filename, symlink_filename) ==
    /\ ~LExists(f, PathJoin(gc_path, temp_filename))
    /\ ~LExists(f, PathJoin(gc_path, symlink_filename))

\* C27: a timer that fires for a temp file that is not on disk, and a turn
\* of the startup pass for a row whose temp file and symlink are not on disk,
\* raise no error, leave these files missing and set every row of that
\* temp_filename to cleaned; and in every state a startup pass run twice at
\* the same time leaves the files and the table that one pass leaves.
C27_CleanupIdempotent ==
    [][/\ \A t \in Fired :
             ~LExists(fs, PathJoin(gc_path, t.temp_filename))
             => /\ fs' = fs
                /\ escaped' = escaped
                /\ \A r \in db' : r.temp_filename = t.temp_filename => r.status = "cleaned"
                /\ {r.id : r \in db'} = {r.id : r \in db}
       /\ \A row \in Reconciled :
             Gone(fs, row.temp_filename, row.symlink_filename)
             => /\ Gone(fs', row.temp_filename, row.symlink_filename)
                /\ escaped' = escaped
                /\ recon' = [recon EXCEPT !.rows = Tail(@)]
                /\ \A r \in db' : r.temp_filename = row.temp_filename => r.status = "cleaned"
                /\ {r.id : r \in db'} = {r.id : r \in db}
       /\ \A once \in {StartupCleanup(fs, db, now)} :
             StartupCleanup(once.fs, once.db, now) = once]_vars

\* a timer is due for a temp file that is no longer on disk, while a row of
\* that temp file is still pending_cleanup
C27_Reached ==
    /\ \E t \in BagToSet(timers) :
          /\ t.due <= now
          /\ ~LExists(fs, PathJoin(gc_path, t.temp_filename))
          /\ \E r \in db : r.temp_filename = t.temp_filename /\ r.status = "pending_cleanup"

\* the row is not one the startup pass begun at the time t is to take up
Spared(r, t) ==
    \/ r.status = "active"
    \/ r.status = "pending_cleanup" /\ r.cleanup_scheduled_at >= t

\* C28: a step of the startup pass leaves every row that is active, or
\* pending_cleanup with cleanup_scheduled_at not earlier than the time the
\* pass began, as it is, and leaves the temp file and the symlink of that row
\* on disk when they are there.
C28_OnlyOverdueRows ==
    [][recon.pc = "rows" /\ recon' # recon /\ recon'.pc # "pending"
       => \A r \in db :
             Spared(r, recon.now)
             => /\ r \in db'
                /\ Exists(fs, PathJoin(gc_path, r.temp_filename)) => Exists(fs', PathJoin(gc_path, r.temp_filename))
                /\ IsSymlink(fs, PathJoin(gc_path, r.symlink_filename)) => IsSymlink(fs', PathJoin(gc_path, r.symlink_filename))]_vars

(***************************************************************************)
(* Handlers that interleave at their awaits, in the life of prints.        *)
(***************************************************************************)
\* the handlers of terminal events that go on from an await in the step
Resumed == {x \in BagToSet(tasks) : x.pc \in {"history", "update"} /\ CopiesIn(x, tasks') < CopiesIn(x, tasks)}

\* C29: when the handler of a terminal event goes on from an await and the
\* registry holds, under its filename, the record of a later request (one
\* with another temp file), the step leaves that record in the registry and
\* leaves the symlink that points at the temp file of that record.
C29_RetiresOwnRecord ==
    [][\A x \in Resumed :
          /\ x.filename \in DOMAIN active_prints
          /\ active_prints[x.filename].temp_filename # x.info.temp_filename
          => /\ x.filename \in DOMAIN active_prints'
             /\ active_prints'[x.filename] = active_prints[x.filename]
             /\ LinkAt(fs, PathJoin(gc_path, x.filename)) = PathJoin(gc_path, active_prints[x.filename].temp_filename)
                => LinkAt(fs', PathJoin(gc_path, x.filename)) = LinkAt(fs, PathJoin(gc_path, x.filename))]_vars

\* C30: no handler ends with a KeyError: none has left a handler of job
\* events, and none is the error of a call of print_modified.
C30_NoKeyError ==
    /\ escaped # "KeyError"
    /\ resp.reply.msg # "KeyError"

(***************************************************************************)
(* The files of registered records, in the states of cleanup and recovery. *)
(***************************************************************************)
\* C31: the temp file of every record in the registry is on disk.
C31_RegisteredTempExists ==
    \A k \in DOMAIN active_prints : Exists(fs, PathJoin(gc_path, active_prints[k].temp_filename))

\* C32: a turn of the loop of the startup pass leaves on disk the temp file
\* and the symlink of every record in the registry (the records of the
\* requests served since the process started).
C32_PassSparesRegistry ==
    [][Reconciled # {}
       => \A k \in DOMAIN active_prints :
             /\ Exists(fs, PathJoin(gc_path, active_prints[k].temp_filename))
                => Exists(fs', PathJoin(gc_path, active_prints[k].temp_filename))
             /\ IsSymlink(fs, PathJoin(gc_path, active_prints[k].symlink_filename))
                => IsSymlink(fs', PathJoin(gc_path, active_prints[k].symlink_filename))]_vars

\* the call of print_modified that made the row has returned: no handler of
\* a request for its temp file is suspended at run_gcode
Returned(r) == \A x \in BagToSet(tasks) : ~(x.pc = "run_gcode" /\ x.info.temp_filename = r.temp_filename)

\* C33: when the terminal event of a filename is handled, every row of a
\* print started under that filename leaves the status active with the
\* UPDATE of the handler, and when the handler ends a timer is armed for the
\* temp file of each such row that is still on disk.
C33_EveryPrintRetired ==
    [][/\ \A x \in Suspended("update") :
             \A r \in db :
                r.symlink_filename = x.filename /\ r.status = "active" /\ Returned(r)
                => \E q \in db' : q.id = r.id /\ q.status # "active"
       /\ \A x \in Ended({"update"}) :
             \A r \in db' :
                /\ r.symlink_filename = x.filename
                /\ r.status = "pending_cleanup"
                /\ Exists(fs', PathJoin(gc_path, r.temp_filename))
                => \E t \in BagToSet(timers') : t.temp_filename = r.temp_filename]_vars

\* C34: a step changes at most one row of the table.
C34_OneRowUpdated == [][Cardinality(db \ db') <= 1]_vars

(***************************************************************************)
(* What the component removes, in the life of prints.                      *)
(***************************************************************************)
\* what the component may remove: an entry inside the temp directory, and a
\* symlink inside the symlink directory or the thumbnails directory
Removable(f, p) ==
    \/ p # Append(gc_path, temp_dir) /\ IsRelativeTo(p, Append(gc_path, temp_dir))
    \/ /\ f[p].kind = "link"
       /\ \/ IsRelativeTo(p, Append(gc_path, symlink_dir))
          \/ IsRelativeTo(p, Append(gc_path, thumbs_name))

\* C35: every entry of the file system that a step removes or replaces is
\* one the component may remove, and the original_filename of every row (of
\* every accepted request) names a file that is on disk.
C35_OriginalKept ==
    [][/\ \A p \in DOMAIN fs : (p \notin DOMAIN fs' \/ fs'[p] # fs[p]) => Removable(fs, p)
       /\ \A r \in db' :
             /\ PathJoin(gc_path, r.original_filename) \in DOMAIN fs'
             /\ fs'[PathJoin(gc_path, r.original_filename)].kind = "file"]_vars

====
